---- MODULE Spec2Model ----
(***************************************************************************)
(* Model of the in-memory customer repository (CustomerService) of the     *)
(* Customer Intelligence Dashboard.                                        *)
(*                                                                         *)
(* Strings are TLA+ strings; their characters are reached with SubSeq.     *)
(* An absent (JavaScript undefined) value is a sentinel of the field's     *)
(* type.  Timestamps are whole days since the creation of the seed data.   *)
(* A health score is a JavaScript number: it is held in units of 1/ScoreUnit *)
(* of a point, so that a score such as 70.5 is a value of the model.       *)
(* Thrown errors are modelled by the code handleError puts in the result.  *)
(***************************************************************************)
EXTENDS Integers, Sequences, FiniteSets, TLC

(***************************************************************************)
(* Bounds of the model.                                                    *)
(***************************************************************************)
MaxOps == 3
MaxInflight == 2
MaxQueryOps == 1
MaxCreateOps == 1
MaxUpdateOps == 2
MaxStatsOps == 8
MaxCallOps == 1
MaxResetOps == 2
MaxRequests == 2
MaxEtagRequests == 3

(***************************************************************************)
(* JavaScript values.                                                      *)
(***************************************************************************)
undefined == "<undefined>"
null == "<null>"
undefinedList == <<"<undefined>">>
notAnArray == <<"<not-an-array>">>
undefinedNumber == -999

\* the number NaN
NaN == -998

\* health scores are counted in halves of a point
ScoreUnit == 2
Points(n) == n * ScoreUnit

Min(a, b) == IF a < b THEN a ELSE b
Max(a, b) == IF a > b THEN a ELSE b

Char(s, i) == SubSeq(s, i, i)

UpperLetters == "ABCDEFGHIJKLMNOPQRSTUVWXYZ"
LowerLetters == "abcdefghijklmnopqrstuvwxyz"
Digits == "0123456789"

UpperSet == {Char(UpperLetters, i) : i \in 1..26}
LowerSet == {Char(LowerLetters, i) : i \in 1..26}
DigitSet == {Char(Digits, i) : i \in 1..10}

IsUpper(c) == c \in UpperSet
IsLower(c) == c \in LowerSet
IsDigit(c) == c \in DigitSet
IsLetter(c) == IsUpper(c) \/ IsLower(c)
IsAlnum(c) == IsLetter(c) \/ IsDigit(c)
IsSpace(c) == c = " "

LowerOf ==
  [c \in UpperSet |-> Char(LowerLetters, CHOOSE i \in 1..26 : Char(UpperLetters, i) = c)]

LowerChar(c) == IF IsUpper(c) THEN LowerOf[c] ELSE c

RECURSIVE toLowerCase(_)
toLowerCase(s) ==
  IF s = "" THEN ""
  ELSE LowerChar(Char(s, 1)) \o toLowerCase(SubSeq(s, 2, Len(s)))

RECURSIVE trimStart(_)
trimStart(s) ==
  IF s # "" /\ IsSpace(Char(s, 1)) THEN trimStart(SubSeq(s, 2, Len(s))) ELSE s

RECURSIVE trimEnd(_)
trimEnd(s) ==
  IF s # "" /\ IsSpace(Char(s, Len(s))) THEN trimEnd(SubSeq(s, 1, Len(s) - 1)) ELSE s

trim(s) == trimEnd(trimStart(s))

includes(s, sub) ==
  \E i \in 0..(Len(s) - Len(sub)) : SubSeq(s, i + 1, i + Len(sub)) = sub

Truthy(s) == s # undefined /\ s # ""

\* Number.prototype.toString for a positive integer
RECURSIVE toString(_)
toString(n) ==
  IF n < 10 THEN Char(Digits, n + 1)
  ELSE toString(n \div 10) \o Char(Digits, (n % 10) + 1)

(***************************************************************************)
(* Validation helpers.                                                     *)
(***************************************************************************)
\* [^\s@]+
NoSpaceAt(s) ==
  /\ s # ""
  /\ \A i \in 1..Len(s) : ~IsSpace(Char(s, i)) /\ Char(s, i) # "@"

\* /^[^\s@]+@[^\s@]+\.[^\s@]+$/ on the trimmed string
isValidEmail(email) ==
  LET e == trim(email) IN
  \E a \in 1..Len(e) :
    /\ Char(e, a) = "@"
    /\ NoSpaceAt(SubSeq(e, 1, a - 1))
    /\ NoSpaceAt(SubSeq(e, a + 1, Len(e)))
    /\ \E d \in (a + 2)..(Len(e) - 1) : Char(e, d) = "."

\* [a-zA-Z]{2,}(\.[a-zA-Z]{2,})*
RECURSIVE LetterLabels(_)
LetterLabels(s) ==
  LET dots == {i \in 1..Len(s) : Char(s, i) = "."} IN
  IF dots = {}
    THEN Len(s) >= 2 /\ \A i \in 1..Len(s) : IsLetter(Char(s, i))
    ELSE LET d == CHOOSE i \in dots : \A j \in dots : i <= j IN
         /\ d >= 3
         /\ \A i \in 1..(d - 1) : IsLetter(Char(s, i))
         /\ LetterLabels(SubSeq(s, d + 1, Len(s)))

\* /^[a-zA-Z0-9][a-zA-Z0-9-]*[a-zA-Z0-9]*\.([a-zA-Z]{2,}(\.[a-zA-Z]{2,})*)$/
\* on the trimmed string, and at most 253 characters untrimmed
isValidDomain(domain) ==
  LET t == trim(domain)
      dots == {i \in 1..Len(t) : Char(t, i) = "."}
  IN /\ dots # {}
     /\ LET d == CHOOSE i \in dots : \A j \in dots : i <= j IN
        /\ d >= 2
        /\ IsAlnum(Char(t, 1))
        /\ \A i \in 2..(d - 1) : IsAlnum(Char(t, i)) \/ Char(t, i) = "-"
        /\ LetterLabels(SubSeq(t, d + 1, Len(t)))
     /\ Len(domain) <= 253

(***************************************************************************)
(* Seed data: the eight customers of data/mock-customers, ids "1".."8".    *)
(***************************************************************************)
Seed(id, name, company, email, tier, domains, score) ==
  [id |-> id, name |-> name, company |-> company, email |-> email,
   subscriptionTier |-> tier, domains |-> domains, healthScore |-> Points(score),
   createdAt |-> 0, updatedAt |-> 0]

mockCustomers ==
  << Seed("1", "John Smith", "Acme Corp", "john.smith@acmecorp.com", "premium",
          <<"acmecorp.com", "portal.acmecorp.com">>, 85),
     Seed("2", "Sarah Johnson", "TechStart Inc", "sarah@techstart.io", "basic",
          <<"techstart.io">>, 45),
     Seed("3", "Michael Brown", "Global Solutions", "m.brown@globalsolutions.com",
          "enterprise", <<"globalsolutions.com">>, 92),
     Seed("4", "Emily Davis", "Acme Labs", "emily@acmelabs.com", "premium",
          <<"acmelabs.com">>, 67),
     Seed("5", "David Wilson", "Digital Dynamics", "david@digitaldynamics.com",
          "basic", <<"digitaldynamics.com">>, 23),
     Seed("6", "Lisa Anderson", "Cloud Nine", "lisa@cloudnine.com", "enterprise",
          <<"cloudnine.com", "app.cloudnine.com">>, 78),
     Seed("7", "John Taylor", "Taylor Made", "john@taylormade.com", "basic",
          <<"taylormade.com">>, 15),
     Seed("8", "Jennifer Lee", "Innovation Hub", "jen@innovationhub.com", "premium",
          <<"innovationhub.com">>, 71) >>

NextIdInit == 9
NowInit == 200

VARIABLES
  customers,   \* CustomerService.customers
  nextId,      \* CustomerService.nextId
  now,         \* the clock read by new Date() / Date.now(), in days
  response,    \* the ServiceResponse of the latest call, with its arguments
  pending,     \* number of create/update/delete calls whose promise the caller has not yet consumed
  everIds,     \* history: every id that was ever in the collection
  deleted,     \* history: ids removed by a successful deleteCustomer
  ops,         \* number of create/update/delete calls made
  http,        \* the latest response of the HTTP API, with its request
  issued,      \* history: the ETag and the statistics of every 200 of GET /customers/stats
  requests,    \* number of requests the HTTP API has answered
  toasts,      \* ToastProvider: the state of useState<Toast[]>
  toastItems,  \* the ToastItem component of every toast shown so far, with its timers
  toastEvent,  \* the latest call of showToast, hideToast, onDismiss or hideAllToasts
  clicks,      \* number of clicks on the dismiss button of a toast
  listState,   \* CustomerList: the customers prop and the state of the component
  hook         \* useCustomerOperations: loading, error and the calls that await their result

\* the state of the repository, and the state of the layers above it
serviceVars == <<customers, nextId, now, response, pending, everIds, deleted, ops>>
httpVars == <<http, issued, requests>>
toastVars == <<toasts, toastItems, toastEvent, clicks>>
listVars == <<listState>>
hookVars == <<hook>>
clientVars == <<toastVars, listVars, hookVars>>
uiVars == <<httpVars, clientVars>>

vars == <<customers, nextId, now, response, pending, everIds, deleted, ops, http, issued,
          requests, toasts, toastItems, toastEvent, clicks, listState,
          hook>>

NoResponse ==
  [op |-> "none", success |-> TRUE, code |-> "", error |-> undefined, id |-> "",
   input |-> <<>>, data |-> <<>>, pagination |-> <<>>]

NoHttpResponse ==
  [method |-> "", endpoint |-> "", status |-> 0, success |-> TRUE, code |-> "",
   etag |-> undefined, ifNoneMatch |-> undefined, id |-> "", body |-> <<>>, data |-> <<>>,
   service |-> NoResponse]

NoToastEvent == [op |-> "none", id |-> "", n |-> 0, toastData |-> <<>>]

\* the state of a CustomerList before the first fetch has answered
NoListState ==
  [customers |-> <<>>, currentPage |-> 1, searchTerm |-> "", filterTier |-> "all",
   sortBy |-> "name", sortOrder |-> "asc"]

\* the state of useCustomerOperations before any call
NoHookState == [loading |-> FALSE, error |-> null, calls |-> <<>>]

Init ==
  /\ customers = mockCustomers
  /\ nextId = NextIdInit
  /\ now = NowInit
  /\ response = NoResponse
  /\ pending = 0
  /\ everIds = {mockCustomers[i].id : i \in 1..Len(mockCustomers)}
  /\ deleted = {}
  /\ ops = 0
  /\ http = NoHttpResponse
  /\ issued = {}
  /\ requests = 0
  /\ toasts = <<>>
  /\ toastItems = <<>>
  /\ toastEvent = NoToastEvent
  /\ clicks = 0
  /\ listState = NoListState
  /\ hook = NoHookState


(***************************************************************************)
(* Private methods of CustomerService.                                     *)
(***************************************************************************)
NameMaxLength == 100

\* input.domains.forEach(domain => isValidDomain(domain) or throw)
domainsError(domains) ==
  IF domains = undefinedList THEN ""
  ELSE IF domains = notAnArray THEN "INTERNAL_ERROR"
  ELSE IF \E i \in 1..Len(domains) : ~isValidDomain(domains[i]) THEN "VALIDATION_ERROR"
  ELSE ""

\* the code of the error validateCustomerInput throws, "" when it returns
validateCustomerInput(input) ==
  IF ~Truthy(input.name) \/ trim(input.name) = "" THEN "VALIDATION_ERROR"
  ELSE IF ~Truthy(input.company) \/ trim(input.company) = "" THEN "VALIDATION_ERROR"
  ELSE IF Len(trim(input.name)) > NameMaxLength THEN "VALIDATION_ERROR"
  ELSE IF Len(trim(input.company)) > NameMaxLength THEN "VALIDATION_ERROR"
  ELSE IF Truthy(input.email) /\ ~isValidEmail(input.email) THEN "VALIDATION_ERROR"
  ELSE domainsError(input.domains)

\* mutation: the healthScore of the patch is not validated
validateCustomerUpdateInputNoScore(input) ==
  IF input.name # undefined /\ (~Truthy(input.name) \/ trim(input.name) = "")
    THEN "VALIDATION_ERROR"
  ELSE IF input.company # undefined /\ (~Truthy(input.company) \/ trim(input.company) = "")
    THEN "VALIDATION_ERROR"
  ELSE IF Truthy(input.name) /\ Len(trim(input.name)) > NameMaxLength THEN "VALIDATION_ERROR"
  ELSE IF Truthy(input.company) /\ Len(trim(input.company)) > NameMaxLength
    THEN "VALIDATION_ERROR"
  ELSE IF Truthy(input.email) /\ ~isValidEmail(input.email) THEN "VALIDATION_ERROR"
  ELSE domainsError(input.domains)

\* the code of the error validateCustomerUpdateInput throws, "" when it returns
validateCustomerUpdateInput(input) ==
  IF input.name # undefined /\ (~Truthy(input.name) \/ trim(input.name) = "")
    THEN "VALIDATION_ERROR"
  ELSE IF input.company # undefined /\ (~Truthy(input.company) \/ trim(input.company) = "")
    THEN "VALIDATION_ERROR"
  ELSE IF Truthy(input.name) /\ Len(trim(input.name)) > NameMaxLength THEN "VALIDATION_ERROR"
  ELSE IF Truthy(input.company) /\ Len(trim(input.company)) > NameMaxLength
    THEN "VALIDATION_ERROR"
  ELSE IF Truthy(input.email) /\ ~isValidEmail(input.email) THEN "VALIDATION_ERROR"
  ELSE IF input.healthScore # undefinedNumber
          /\ (input.healthScore < Points(0) \/ input.healthScore > Points(100))
    THEN "VALIDATION_ERROR"
  ELSE domainsError(input.domains)

\* switch (subscriptionTier) of both score functions
tierSwitch(tier) ==
  CASE tier = "enterprise" -> 30
    [] tier = "premium" -> 15
    [] tier = "basic" -> 5
    [] OTHER -> 0

\* mutation: the domain bonus is not capped at 20
calculateInitialHealthScoreUncapped(input) ==
  LET score == 50 + tierSwitch(input.subscriptionTier)
                  + (IF input.domains # undefinedList THEN Len(input.domains) * 5 ELSE 0)
                  + (IF Truthy(input.email) THEN 10 ELSE 0)
  IN Points(Min(Max(score, 0), 100))

calculateInitialHealthScore(input) ==
  LET score == 50 + tierSwitch(input.subscriptionTier)
                  + (IF input.domains # undefinedList
                       THEN Min(Len(input.domains) * 5, 20) ELSE 0)
                  + (IF Truthy(input.email) THEN 10 ELSE 0)
  IN Points(Min(Max(score, 0), 100))

\* mutation: the result is rounded but not clamped
calculateHealthScoreUnclamped(customer, t) ==
  Points((10 * (50 + tierSwitch(customer.subscriptionTier)
            + (IF customer.domains # undefinedList
                 THEN Min(Len(customer.domains) * 5, 20) ELSE 0)
            + (IF Truthy(customer.email) THEN 10 ELSE 0))
   + Min(t - customer.createdAt, 150) + 5) \div 10)

\* the score in tenths of a point before Math.round: the age bonus is
\* min(days / 10, 15), so a whole number of days adds whole tenths
calculateHealthScore(customer, t) ==
  LET score10 == 10 * (50 + tierSwitch(customer.subscriptionTier)
                          + (IF customer.domains # undefinedList
                               THEN Min(Len(customer.domains) * 5, 20) ELSE 0)
                          + (IF Truthy(customer.email) THEN 10 ELSE 0))
                 + Min(t - customer.createdAt, 150)
      rounded == (score10 + 5) \div 10
  IN Points(Min(Max(rounded, 0), 100))

(***************************************************************************)
(* Results.                                                                *)
(***************************************************************************)
EmptyId(id) == ~Truthy(id) \/ trim(id) = ""

Result(op, id, input, success, code, data, pagination) ==
  [op |-> op, success |-> success, code |-> code, error |-> undefined, id |-> id,
   input |-> input, data |-> data, pagination |-> pagination]

\* the message of the first ValidationError validateCustomerInput throws
validateCustomerInputMessage(input) ==
  IF ~Truthy(input.name) \/ trim(input.name) = "" THEN "Customer name is required"
  ELSE IF ~Truthy(input.company) \/ trim(input.company) = "" THEN "Company name is required"
  ELSE IF Len(trim(input.name)) > NameMaxLength
    THEN "Customer name must be less than 100 characters"
  ELSE IF Len(trim(input.company)) > NameMaxLength
    THEN "Company name must be less than 100 characters"
  ELSE IF Truthy(input.email) /\ ~isValidEmail(input.email) THEN "Invalid email format"
  ELSE LET index == CHOOSE i \in 1..Len(input.domains) :
                      /\ ~isValidDomain(input.domains[i])
                      /\ \A j \in 1..(i - 1) : isValidDomain(input.domains[j])
       IN "Invalid domain format at index " \o toString(index - 1) \o ": "
            \o input.domains[index]

\* the message of the first ValidationError validateCustomerUpdateInput throws
validateCustomerUpdateInputMessage(input) ==
  IF input.name # undefined /\ (~Truthy(input.name) \/ trim(input.name) = "")
    THEN "Customer name cannot be empty"
  ELSE IF input.company # undefined /\ (~Truthy(input.company) \/ trim(input.company) = "")
    THEN "Company name cannot be empty"
  ELSE IF Truthy(input.name) /\ Len(trim(input.name)) > NameMaxLength
    THEN "Customer name must be less than 100 characters"
  ELSE IF Truthy(input.company) /\ Len(trim(input.company)) > NameMaxLength
    THEN "Company name must be less than 100 characters"
  ELSE IF Truthy(input.email) /\ ~isValidEmail(input.email) THEN "Invalid email format"
  ELSE IF input.healthScore # undefinedNumber
          /\ (input.healthScore < Points(0) \/ input.healthScore > Points(100))
    THEN "Health score must be between 0 and 100"
  ELSE LET index == CHOOSE i \in 1..Len(input.domains) :
                      /\ ~isValidDomain(input.domains[i])
                      /\ \A j \in 1..(i - 1) : isValidDomain(input.domains[j])
       IN "Invalid domain format at index " \o toString(index - 1) \o ": "
            \o input.domains[index]

\* error.message of the error caught by the operation op
errorMessage(op, id, input, code) ==
  CASE code = "NOT_FOUND" -> "Customer with ID '" \o id \o "' not found"
    [] code = "DUPLICATE_ERROR" -> "Customer with email '" \o input.email \o "' already exists"
    [] code = "INTERNAL_ERROR" -> "input.domains.forEach is not a function"
    [] code = "VALIDATION_ERROR" ->
         IF op \in {"getCustomerById", "updateCustomer", "deleteCustomer"} /\ EmptyId(id)
           THEN "Customer ID is required"
         ELSE IF op = "createCustomer" THEN validateCustomerInputMessage(input)
         ELSE IF op = "updateCustomer" THEN validateCustomerUpdateInputMessage(input)
         ELSE "Invalid health score range. Must be 0-100 with min <= max"

\* handleError: success false, the message and the code of the thrown error
handleError(op, id, input, code) ==
  [Result(op, id, input, FALSE, code, <<>>, <<>>)
     EXCEPT !.error = errorMessage(op, id, input, code)]

IndexOf(id) ==
  IF \E i \in 1..Len(customers) : customers[i].id = id
    THEN CHOOSE i \in 1..Len(customers) :
           /\ customers[i].id = id
           /\ \A j \in 1..(i - 1) : customers[j].id # id
    ELSE 0



(***************************************************************************)
(* createCustomer                                                          *)
(***************************************************************************)
\* this.customers.some(c => c.email === input.email)
emailExists(email) ==
  \E i \in 1..Len(customers) : customers[i].email = email

\* mutation: the id is derived from the size of the collection
generateIdFromLength == toString(Len(customers) + 1)

\* this.nextId.toString()
generateId == toString(nextId)

\* mutation: the score is computed from the input with the tier defaulted
newCustomerScoredAsStored(input) ==
  [id |-> generateId,
   name |-> trim(input.name),
   company |-> trim(input.company),
   email |-> IF input.email = undefined THEN undefined ELSE trim(input.email),
   subscriptionTier |-> IF Truthy(input.subscriptionTier)
                          THEN input.subscriptionTier ELSE "basic",
   domains |-> IF input.domains # undefinedList THEN input.domains ELSE <<>>,
   healthScore |-> calculateInitialHealthScore(
                     [input EXCEPT !.subscriptionTier = IF Truthy(@) THEN @ ELSE "basic"]),
   createdAt |-> now,
   updatedAt |-> now]

newCustomer(input) ==
  [id |-> generateId,
   name |-> trim(input.name),
   company |-> trim(input.company),
   email |-> IF input.email = undefined THEN undefined ELSE trim(input.email),
   subscriptionTier |-> IF Truthy(input.subscriptionTier)
                          THEN input.subscriptionTier ELSE "basic",
   domains |-> IF input.domains # undefinedList THEN input.domains ELSE <<>>,
   healthScore |-> calculateInitialHealthScore(input),
   createdAt |-> now,
   updatedAt |-> now]

\* the code of the error thrown in the try block, "" when none is thrown
createCustomerError(input) ==
  IF validateCustomerInput(input) # "" THEN validateCustomerInput(input)
  ELSE IF Truthy(input.email) /\ emailExists(input.email) THEN "DUPLICATE_ERROR"
  ELSE ""

\* mutation: the counter is advanced before the validation
nextIdAdvancedAlways(code) == nextId + 1

\* this.nextId++ is reached only when nothing was thrown
nextIdAfterCreate(code) == IF code = "" THEN nextId + 1 ELSE nextId

createCustomer(input) ==
  /\ pending < MaxInflight
  /\ LET code == createCustomerError(input)
         r == IF code = ""
                THEN Result("createCustomer", "", input, TRUE, "", <<newCustomer(input)>>, <<>>)
                ELSE handleError("createCustomer", "", input, code)
     IN /\ IF code = ""
             THEN /\ customers' = Append(customers, newCustomer(input))
                  /\ everIds' = everIds \cup {newCustomer(input).id}
             ELSE UNCHANGED <<customers, everIds>>
        /\ nextId' = nextIdAfterCreate(code)
        /\ response' = r
  /\ ops' = ops + 1
  /\ pending' = pending + 1
  /\ UNCHANGED <<now, deleted>>

(***************************************************************************)
(* updateCustomer                                                          *)
(***************************************************************************)
\* mutation: the updated customer itself is not excluded
emailExistsAnywhere(id, email) ==
  \E i \in 1..Len(customers) : customers[i].email = email

\* this.customers.some(c => c.id !== id && c.email === input.email)
emailExistsElsewhere(id, email) ==
  \E i \in 1..Len(customers) : customers[i].id # id /\ customers[i].email = email

\* mutation: updatedAt is written before the spread of the existing record
spreadDefinedStale(existing, input) ==
  [existing EXCEPT
     !.name = IF input.name # undefined THEN input.name ELSE @,
     !.company = IF input.company # undefined THEN input.company ELSE @,
     !.email = IF input.email # undefined THEN input.email ELSE @,
     !.subscriptionTier = IF input.subscriptionTier # undefined
                            THEN input.subscriptionTier ELSE @,
     !.domains = IF input.domains # undefinedList THEN input.domains ELSE @,
     !.healthScore = IF input.healthScore # undefinedNumber THEN input.healthScore ELSE @]

\* mutation: the entries of the input are not filtered, absent fields overwrite
spreadEntries(existing, input) ==
  [existing EXCEPT
     !.name = input.name,
     !.company = input.company,
     !.email = input.email,
     !.subscriptionTier = IF input.subscriptionTier # undefined
                            THEN input.subscriptionTier ELSE @,
     !.domains = IF input.domains # undefinedList THEN input.domains ELSE @,
     !.healthScore = IF input.healthScore # undefinedNumber THEN input.healthScore ELSE @,
     !.updatedAt = now]

\* { ...existingCustomer, ...entries of input that are not undefined, updatedAt }
spreadDefined(existing, input) ==
  [existing EXCEPT
     !.name = IF input.name # undefined THEN input.name ELSE @,
     !.company = IF input.company # undefined THEN input.company ELSE @,
     !.email = IF input.email # undefined THEN input.email ELSE @,
     !.subscriptionTier = IF input.subscriptionTier # undefined
                            THEN input.subscriptionTier ELSE @,
     !.domains = IF input.domains # undefinedList THEN input.domains ELSE @,
     !.healthScore = IF input.healthScore # undefinedNumber THEN input.healthScore ELSE @,
     !.updatedAt = now]

trimmedStrings(c, input) ==
  [c EXCEPT
     !.name = IF Truthy(input.name) THEN trim(input.name) ELSE @,
     !.company = IF Truthy(input.company) THEN trim(input.company) ELSE @,
     !.email = IF Truthy(input.email) THEN trim(input.email) ELSE @]

\* mutation: an explicit healthScore in the patch wins over the recomputation
updatedCustomerExplicitScore(existing, input) ==
  LET merged == trimmedStrings(spreadDefined(existing, input), input) IN
  IF (Truthy(input.subscriptionTier) \/ input.domains # undefinedList)
       /\ input.healthScore = undefinedNumber
    THEN [merged EXCEPT !.healthScore = calculateHealthScore(merged, now)]
    ELSE merged

updatedCustomer(existing, input) ==
  LET merged == trimmedStrings(spreadDefined(existing, input), input) IN
  IF Truthy(input.subscriptionTier) \/ input.domains # undefinedList
    THEN [merged EXCEPT !.healthScore = calculateHealthScore(merged, now)]
    ELSE merged

updateCustomerError(id, input) ==
  IF EmptyId(id) THEN "VALIDATION_ERROR"
  ELSE IF IndexOf(id) = 0 THEN "NOT_FOUND"
  ELSE IF validateCustomerUpdateInput(input) # "" THEN validateCustomerUpdateInput(input)
  ELSE IF Truthy(input.email) /\ emailExistsElsewhere(id, input.email) THEN "DUPLICATE_ERROR"
  ELSE ""

updateCustomer(id, input) ==
  /\ pending < MaxInflight
  /\ LET code == updateCustomerError(id, input)
         idx == IndexOf(id)
         upd == updatedCustomer(customers[idx], input)
         r == IF code = ""
                THEN Result("updateCustomer", id, input, TRUE, "", <<upd>>, <<>>)
                ELSE handleError("updateCustomer", id, input, code)
     IN /\ IF code = ""
             THEN customers' = [customers EXCEPT ![idx] = upd]
             ELSE UNCHANGED customers
        /\ response' = r
  /\ ops' = ops + 1
  /\ pending' = pending + 1
  /\ UNCHANGED <<nextId, now, everIds, deleted>>

(***************************************************************************)
(* deleteCustomer                                                          *)
(***************************************************************************)
\* mutation: the element before the found one is removed
spliceOffByOne(list, idx) ==
  SubSeq(list, 1, idx - 2) \o SubSeq(list, idx, Len(list))

\* Array.prototype.splice(index, 1)
splice(list, idx) ==
  SubSeq(list, 1, idx - 1) \o SubSeq(list, idx + 1, Len(list))

\* mutation: the id is looked up without the test for an empty id
deleteCustomerErrorNoIdTest(id) ==
  IF IndexOf(id) = 0 THEN "NOT_FOUND" ELSE ""

deleteCustomerError(id) ==
  IF EmptyId(id) THEN "VALIDATION_ERROR"
  ELSE IF IndexOf(id) = 0 THEN "NOT_FOUND"
  ELSE ""

deleteCustomer(id) ==
  /\ pending < MaxInflight
  /\ LET code == deleteCustomerError(id)
         r == IF code = ""
                THEN Result("deleteCustomer", id, <<>>, TRUE, "", <<>>, <<>>)
                ELSE handleError("deleteCustomer", id, <<>>, code)
     IN /\ IF code = ""
             THEN /\ customers' = splice(customers, IndexOf(id))
                  /\ deleted' = deleted \cup {id}
             ELSE UNCHANGED <<customers, deleted>>
        /\ response' = r
  /\ ops' = ops + 1
  /\ pending' = pending + 1
  /\ UNCHANGED <<nextId, now, everIds>>

(***************************************************************************)
(* getCustomerById                                                         *)
(***************************************************************************)
getCustomerByIdResult(id) ==
  IF EmptyId(id) THEN handleError("getCustomerById", id, <<>>, "VALIDATION_ERROR")
  ELSE IF IndexOf(id) = 0 THEN handleError("getCustomerById", id, <<>>, "NOT_FOUND")
  ELSE Result("getCustomerById", id, <<>>, TRUE, "", <<customers[IndexOf(id)]>>, <<>>)

getCustomerById(id) ==
  /\ response' = getCustomerByIdResult(id)
  /\ UNCHANGED <<customers, nextId, now, pending, everIds, deleted, ops>>

(***************************************************************************)
(* getCustomers                                                            *)
(***************************************************************************)
\* characters in the order of the root collation: blank, punctuation, digits, letters
CollationOrder == " -.@0123456789abcdefghijklmnopqrstuvwxyz"

CollationSet == {Char(CollationOrder, i) : i \in 1..Len(CollationOrder)}

RankOf ==
  [c \in CollationSet |-> CHOOSE i \in 1..Len(CollationOrder) : Char(CollationOrder, i) = c]

CollationRank(c) ==
  IF LowerChar(c) \in CollationSet THEN RankOf[LowerChar(c)] ELSE 0

\* comparison of the base letters
RECURSIVE primaryCompare(_, _)
primaryCompare(a, b) ==
  IF a = "" /\ b = "" THEN 0
  ELSE IF a = "" THEN -1
  ELSE IF b = "" THEN 1
  ELSE IF CollationRank(Char(a, 1)) < CollationRank(Char(b, 1)) THEN -1
  ELSE IF CollationRank(Char(a, 1)) > CollationRank(Char(b, 1)) THEN 1
  ELSE primaryCompare(SubSeq(a, 2, Len(a)), SubSeq(b, 2, Len(b)))

\* comparison of the case of strings with equal base letters: lower case first
RECURSIVE caseCompare(_, _)
caseCompare(a, b) ==
  IF a = "" \/ b = "" THEN 0
  ELSE IF Char(a, 1) = Char(b, 1) THEN caseCompare(SubSeq(a, 2, Len(a)), SubSeq(b, 2, Len(b)))
  ELSE IF IsLower(Char(a, 1)) THEN -1
  ELSE 1

\* String.prototype.localeCompare
localeCompare(a, b) ==
  IF primaryCompare(a, b) # 0 THEN primaryCompare(a, b) ELSE caseCompare(a, b)

StringFields == {"id", "name", "company", "email"}

\* the comparator passed to Array.prototype.sort; createdAt and updatedAt are
\* ISO strings of one format, which localeCompare orders as the instants
sortCompare(a, b, options) ==
  LET aValue == a[options.sortBy]
      bValue == b[options.sortBy]
      modifier == IF options.sortOrder = "desc" THEN -1 ELSE 1
  IN IF options.sortBy \in StringFields
       THEN IF aValue # undefined /\ bValue # undefined
              THEN localeCompare(aValue, bValue) * modifier
              ELSE 0
       ELSE (aValue - bValue) * modifier

\* Array.prototype.sort is stable: an element goes behind the elements that
\* do not compare greater than it
RECURSIVE sortCustomers(_, _)
sortCustomers(list, options) ==
  IF options.sortBy = undefined \/ list = <<>> THEN list
  ELSE LET x == list[Len(list)]
           sorted == sortCustomers(SubSeq(list, 1, Len(list) - 1), options)
           k == Cardinality({i \in 1..Len(sorted) : sortCompare(sorted[i], x, options) <= 0})
       IN SubSeq(sorted, 1, k) \o <<x>> \o SubSeq(sorted, k + 1, Len(sorted))

\* mutation: the search term is looked for in the name only
matchesSearchTermNameOnly(customer, searchLower) ==
  includes(toLowerCase(customer.name), searchLower)

matchesSearchTerm(customer, searchLower) ==
  \/ includes(toLowerCase(customer.name), searchLower)
  \/ includes(toLowerCase(customer.company), searchLower)
  \/ (customer.email # undefined /\ includes(toLowerCase(customer.email), searchLower))

filterCustomers(options) ==
  LET byTier(c) == c.subscriptionTier = options.subscriptionTier
      byMin(c) == c.healthScore >= options.healthScoreMin
      byMax(c) == c.healthScore <= options.healthScoreMax
      byCompany(c) == includes(toLowerCase(c.company), toLowerCase(options.company))
      bySearch(c) == matchesSearchTerm(c, toLowerCase(options.searchTerm))
      f1 == IF Truthy(options.subscriptionTier) THEN SelectSeq(customers, byTier) ELSE customers
      f2 == IF options.healthScoreMin # undefinedNumber THEN SelectSeq(f1, byMin) ELSE f1
      f3 == IF options.healthScoreMax # undefinedNumber THEN SelectSeq(f2, byMax) ELSE f2
      f4 == IF Truthy(options.company) THEN SelectSeq(f3, byCompany) ELSE f3
  IN IF Truthy(options.searchTerm) THEN SelectSeq(f4, bySearch) ELSE f4

\* options.page || 1, options.limit || 10
DefaultPage == 1
DefaultLimit == 10
orDefault(n, d) == IF n = undefinedNumber \/ n = 0 THEN d ELSE n

\* mutation: the first page starts after the first limit items
startIndexOneBased(page, limit) == page * limit

startIndex(page, limit) == (page - 1) * limit

\* Array.prototype.slice for indices that are not negative
slice(list, from, to) == SubSeq(list, from + 1, Min(to, Len(list)))

\* Math.ceil(a / b) for a >= 0 and b > 0
ceilDiv(a, b) == (a + b - 1) \div b

getCustomersResult(options) ==
  LET filteredCustomers == sortCustomers(filterCustomers(options), options)
      page == orDefault(options.page, DefaultPage)
      limit == orDefault(options.limit, DefaultLimit)
      start == startIndex(page, limit)
      paginatedCustomers == slice(filteredCustomers, start, start + limit)
  IN Result("getCustomers", "", options, TRUE, "", paginatedCustomers,
            [page |-> page, limit |-> limit, total |-> Len(filteredCustomers),
             totalPages |-> ceilDiv(Len(filteredCustomers), limit)])

getCustomers(options) ==
  /\ response' = getCustomersResult(options)
  /\ UNCHANGED <<customers, nextId, now, pending, everIds, deleted, ops>>

(***************************************************************************)
(* getCustomersByHealthScore, getCustomersByTier, searchCustomers          *)
(***************************************************************************)
\* the default values of the parameters minScore and maxScore
DefaultMinScore == Points(0)
DefaultMaxScore == Points(100)

\* mutation: the order of the two limits is not tested
healthScoreRangeUnordered(minScore, maxScore) ==
  minScore < Points(0) \/ maxScore > Points(100)

\* minScore < 0 || maxScore > 100 || minScore > maxScore
healthScoreRangeInvalid(minScore, maxScore) ==
  minScore < Points(0) \/ maxScore > Points(100) \/ minScore > maxScore

getCustomersByHealthScoreResult(min, max) ==
  LET minScore == IF min = undefinedNumber THEN DefaultMinScore ELSE min
      maxScore == IF max = undefinedNumber THEN DefaultMaxScore ELSE max
      inRange(c) == c.healthScore >= minScore /\ c.healthScore <= maxScore
  IN IF healthScoreRangeInvalid(minScore, maxScore)
       THEN handleError("getCustomersByHealthScore", "", <<min, max>>, "VALIDATION_ERROR")
       ELSE Result("getCustomersByHealthScore", "", <<min, max>>, TRUE, "",
                   SelectSeq(customers, inRange), <<>>)

getCustomersByHealthScore(min, max) ==
  /\ response' = getCustomersByHealthScoreResult(min, max)
  /\ UNCHANGED <<customers, nextId, now, pending, everIds, deleted, ops>>

getCustomersByTierResult(tier) ==
  LET ofTier(c) == c.subscriptionTier = tier
  IN Result("getCustomersByTier", "", tier, TRUE, "", SelectSeq(customers, ofTier), <<>>)

getCustomersByTier(tier) ==
  /\ response' = getCustomersByTierResult(tier)
  /\ UNCHANGED <<customers, nextId, now, pending, everIds, deleted, ops>>

\* mutation: an empty search term selects every customer
searchCustomersAllWhenEmpty(searchTerm) ==
  LET matches(c) == matchesSearchTerm(c, trim(toLowerCase(searchTerm)))
  IN IF ~Truthy(searchTerm) \/ trim(searchTerm) = ""
       THEN Result("searchCustomers", "", searchTerm, TRUE, "", customers, <<>>)
       ELSE Result("searchCustomers", "", searchTerm, TRUE, "",
                   SelectSeq(customers, matches), <<>>)

searchCustomersResult(searchTerm) ==
  LET matches(c) == matchesSearchTerm(c, trim(toLowerCase(searchTerm)))
  IN IF ~Truthy(searchTerm) \/ trim(searchTerm) = ""
       THEN Result("searchCustomers", "", searchTerm, TRUE, "", <<>>, <<>>)
       ELSE Result("searchCustomers", "", searchTerm, TRUE, "",
                   SelectSeq(customers, matches), <<>>)

searchCustomers(searchTerm) ==
  /\ response' = searchCustomersResult(searchTerm)
  /\ UNCHANGED <<customers, nextId, now, pending, everIds, deleted, ops>>

(***************************************************************************)
(* getCustomerStats                                                        *)
(***************************************************************************)
RECURSIVE sumHealthScores(_)
\* this.customers.reduce((sum, c) => sum + c.healthScore, 0)
sumHealthScores(list) ==
  IF list = <<>> THEN 0
  ELSE sumHealthScores(SubSeq(list, 1, Len(list) - 1)) + list[Len(list)].healthScore

\* Math.round(sum / length): 0 / 0 is NaN and Math.round(NaN) is NaN; for a
\* sum that is not negative Math.round(q) is floor(q + 1/2)
averageHealthScore ==
  IF Len(customers) = 0 THEN NaN
  ELSE Points((2 * sumHealthScores(customers) + ScoreUnit * Len(customers))
                \div (2 * ScoreUnit * Len(customers)))

customerStats ==
  LET basic(c) == c.subscriptionTier = "basic"
      premium(c) == c.subscriptionTier = "premium"
      enterprise(c) == c.subscriptionTier = "enterprise"
      healthy(c) == c.healthScore >= Points(71)
      warning(c) == c.healthScore >= Points(31) /\ c.healthScore <= Points(70)
      critical(c) == c.healthScore <= Points(30)
  IN [total |-> Len(customers),
      byTier |-> [basic |-> Len(SelectSeq(customers, basic)),
                  premium |-> Len(SelectSeq(customers, premium)),
                  enterprise |-> Len(SelectSeq(customers, enterprise))],
      averageHealthScore |-> averageHealthScore,
      healthDistribution |-> [healthy |-> Len(SelectSeq(customers, healthy)),
                              warning |-> Len(SelectSeq(customers, warning)),
                              critical |-> Len(SelectSeq(customers, critical))]]

getCustomerStats ==
  /\ response' = Result("getCustomerStats", "", <<>>, TRUE, "", <<customerStats>>, <<>>)
  /\ UNCHANGED <<customers, nextId, now, pending, everIds, deleted, ops>>

(***************************************************************************)
(* Environment: the clock advances; the caller consumes a settled promise. *)
(***************************************************************************)
Times == {NowInit, NowInit + 46}

Tick ==
  /\ \E t \in Times : t > now /\ now' = t
  /\ UNCHANGED <<customers, nextId, response, pending, everIds, deleted, ops>>

Settle ==
  /\ pending > 0
  /\ pending' = pending - 1
  /\ UNCHANGED <<customers, nextId, now, response, everIds, deleted, ops>>

(***************************************************************************)
(* Inputs of the calls.                                                    *)
(***************************************************************************)
CreateInput(name, company, email, tier, domains) ==
  [name |-> name, company |-> company, email |-> email,
   subscriptionTier |-> tier, domains |-> domains]

Patch(name, company, email, tier, domains, score) ==
  [name |-> name, company |-> company, email |-> email,
   subscriptionTier |-> tier, domains |-> domains, healthScore |-> score]

NoPatch == Patch(undefined, undefined, undefined, undefined, undefinedList, undefinedNumber)

\* every kind of outcome of every operation
CreateInputs ==
  {CreateInput("Ann Lee", "Acme Labs", undefined, undefined, undefinedList),
   CreateInput(" Bo Li ", "Bolt", "bo@bolt.io", "enterprise", <<"bolt.io">>),
   CreateInput(" ", "Acme Labs", undefined, undefined, undefinedList),
   CreateInput("Ann Lee", "Acme Labs", "john.smith@acmecorp.com", undefined, undefinedList),
   CreateInput("Ann Lee", "Acme Labs", undefined, "premium", notAnArray)}

Patches ==
  {[NoPatch EXCEPT !.name = " John S "],
   [NoPatch EXCEPT !.email = "sarah@techstart.io"],
   [NoPatch EXCEPT !.healthScore = Points(100)],
   [NoPatch EXCEPT !.healthScore = Points(101)],
   [NoPatch EXCEPT !.subscriptionTier = "enterprise",
                   !.domains = <<"a.io", "b.io", "c.io", "d.io">>, !.healthScore = Points(0)],
   [NoPatch EXCEPT !.domains = notAnArray]}

UpdateIds == {"2", "9"}
DeleteIds == {"1", "9", " "}
GetIds == {"1", "9"}

Next ==
  \/ \E input \in CreateInputs : ops < MaxOps /\ createCustomer(input) /\ UNCHANGED uiVars
  \/ \E id \in UpdateIds, input \in Patches : ops < MaxOps /\ updateCustomer(id, input) /\ UNCHANGED uiVars
  \/ \E id \in DeleteIds : ops < MaxOps /\ deleteCustomer(id) /\ UNCHANGED uiVars
  \/ \E id \in GetIds : getCustomerById(id) /\ UNCHANGED uiVars
  \/ Tick /\ UNCHANGED uiVars
  \/ Settle /\ UNCHANGED uiVars

Spec == Init /\ [][Next]_vars

\* emails that differ from a stored email in case or in surrounding blanks only
EmailCreateInputs ==
  {CreateInput("Ann Lee", "Acme Labs", e, undefined, undefinedList) :
     e \in {"john.smith@acmecorp.com", "John.Smith@acmecorp.com", "bo@bolt.io", " bo@bolt.io"}}

EmailPatches ==
  {[NoPatch EXCEPT !.email = e] : e \in {"SARAH@techstart.io", "John.Smith@acmecorp.com"}}

NextEmail ==
  \/ \E input \in EmailCreateInputs : ops < MaxOps /\ createCustomer(input) /\ UNCHANGED uiVars
  \/ \E input \in EmailPatches : ops < MaxOps /\ updateCustomer("2", input) /\ UNCHANGED uiVars
  \/ ops < MaxOps /\ deleteCustomer("1") /\ UNCHANGED uiVars
  \/ Settle /\ UNCHANGED uiVars

SpecEmail == Init /\ [][NextEmail]_vars

\* every tier, domain counts on both sides of the cap, email absent, empty and present
ScoreCreateInputs ==
  {CreateInput("Ann Lee", "Acme Labs", e, t, d) :
     e \in {undefined, "", "ann@new.io"},
     t \in {undefined, "basic", "premium", "enterprise"},
     d \in {undefinedList, <<>>, <<"a.io">>, <<"a.io", "b.io", "c.io", "d.io">>,
            <<"a.io", "b.io", "c.io", "d.io", "e.io">>}}

NextCreate ==
  \/ \E input \in ScoreCreateInputs : ops < MaxCreateOps /\ createCustomer(input) /\ UNCHANGED uiVars
  \/ \E id \in DeleteIds : ops < MaxOps /\ deleteCustomer(id) /\ UNCHANGED uiVars
  \/ Settle /\ UNCHANGED uiVars

SpecCreate == Init /\ [][NextCreate]_vars

Options(tier, hmin, hmax, company, searchTerm, sortBy, sortOrder, page, limit) ==
  [subscriptionTier |-> tier, healthScoreMin |-> hmin, healthScoreMax |-> hmax,
   company |-> company, searchTerm |-> searchTerm, sortBy |-> sortBy,
   sortOrder |-> sortOrder, page |-> page, limit |-> limit]

\* no filter, each filter alone, all filters together
Filters ==
  {<<undefined, undefinedNumber, undefinedNumber, undefined, undefined>>,
   <<"premium", undefinedNumber, undefinedNumber, undefined, undefined>>,
   <<undefined, Points(67), undefinedNumber, undefined, undefined>>,
   <<undefined, undefinedNumber, Points(71), undefined, undefined>>,
   <<undefined, undefinedNumber, undefinedNumber, "ACME", undefined>>,
   <<undefined, undefinedNumber, undefinedNumber, undefined, "John">>,
   <<undefined, undefinedNumber, undefinedNumber, undefined, "sarah@">>,
   <<"premium", Points(50), Points(90), "acme", "a">>}

Sorts ==
  {<<undefined, undefined>>, <<"name", "asc">>, <<"name", "desc">>,
   <<"healthScore", undefined>>, <<"healthScore", "desc">>}

Pages ==
  {<<undefinedNumber, undefinedNumber>>, <<1, 3>>, <<2, 3>>, <<3, 3>>, <<4, 3>>, <<2, 5>>}

\* every filter with every page, every sort with every page, and the two together
QueryOptions ==
  {Options(f[1], f[2], f[3], f[4], f[5], undefined, undefined, p[1], p[2]) :
     f \in Filters, p \in Pages}
  \cup {Options(undefined, undefinedNumber, undefinedNumber, undefined, undefined,
                s[1], s[2], p[1], p[2]) : s \in Sorts, p \in Pages}
  \cup {Options("premium", Points(50), Points(90), "acme", "a", s[1], s[2], p, 1) :
          s \in Sorts, p \in {1, 2}}

QueryCreateInputs ==
  {CreateInput("john smith", "ACME Inc", undefined, "premium", undefinedList),
   CreateInput("Sarah Jones", "Bolt", "sarah@bolt.io", undefined, undefinedList)}

QueryPatches ==
  {[NoPatch EXCEPT !.healthScore = Points(85)],
   [NoPatch EXCEPT !.name = "john Smith", !.subscriptionTier = "premium"]}

NextQuery ==
  \/ \E input \in QueryCreateInputs : ops < MaxQueryOps /\ createCustomer(input) /\ UNCHANGED uiVars
  \/ \E input \in QueryPatches : ops < MaxQueryOps /\ updateCustomer("2", input) /\ UNCHANGED uiVars
  \/ ops < MaxQueryOps /\ deleteCustomer("1") /\ UNCHANGED uiVars
  \/ \E options \in QueryOptions : getCustomers(options) /\ UNCHANGED uiVars

SpecQuery == Init /\ [][NextQuery]_vars

\* a list of eleven valid domains
ElevenDomains ==
  <<"a.io", "b.io", "c.io", "d.io", "e.io", "f.io", "g.io", "h.io", "i.io", "j.io", "k.io">>

\* patches of one field and of several, with and without an explicit score
UpdatePatches ==
  {[NoPatch EXCEPT !.name = " John S "],
   [NoPatch EXCEPT !.email = "sarah@techstart.io"],
   [NoPatch EXCEPT !.healthScore = 141],
   [NoPatch EXCEPT !.healthScore = Points(101)],
   [NoPatch EXCEPT !.subscriptionTier = "enterprise", !.healthScore = Points(10)],
   [NoPatch EXCEPT !.domains = <<>>, !.healthScore = Points(100)],
   [NoPatch EXCEPT !.domains = <<"dup.io", "dup.io">>],
   [NoPatch EXCEPT !.domains = ElevenDomains],
   [NoPatch EXCEPT !.company = ""]}

UpdateCalls ==
  {<<"2", input>> : input \in UpdatePatches}
  \cup {<<"1", [NoPatch EXCEPT !.email = "sarah@techstart.io"]>>,
        <<"9", [NoPatch EXCEPT !.name = " John S "]>>,
        <<"9", [NoPatch EXCEPT !.healthScore = Points(-1)]>>,
        <<"9", [NoPatch EXCEPT !.subscriptionTier = "enterprise", !.healthScore = Points(10)]>>}

UpdateCreateInputs ==
  {CreateInput("Bo Li", "Bolt", "bo@bolt.io", "premium", <<"bolt.io">>),
   CreateInput("Ann Lee", "Acme Labs", undefined, undefined, <<"dup.io", "dup.io">>),
   CreateInput("Cy Orr", "Orr Ltd", undefined, undefined, ElevenDomains)}

NextUpdate ==
  \/ \E call \in UpdateCalls : ops < MaxUpdateOps /\ updateCustomer(call[1], call[2]) /\ UNCHANGED uiVars
  \/ \E input \in UpdateCreateInputs : ops < MaxUpdateOps /\ createCustomer(input) /\ UNCHANGED uiVars
  \/ Tick /\ UNCHANGED uiVars
  \/ Settle /\ UNCHANGED uiVars

SpecUpdate == Init /\ [][NextUpdate]_vars

\* every customer can be deleted; scores on and between the band limits
StatsDeleteIds == {"1", "2", "3", "4", "5", "6", "7", "8"}

StatsPatches ==
  {[NoPatch EXCEPT !.healthScore = 141],
   [NoPatch EXCEPT !.subscriptionTier = "basic"]}

NextStats ==
  \/ \E id \in StatsDeleteIds : ops < MaxStatsOps /\ deleteCustomer(id) /\ UNCHANGED uiVars
  \/ \E input \in StatsPatches : ops < MaxStatsOps /\ updateCustomer("4", input) /\ UNCHANGED uiVars
  \/ getCustomerStats /\ UNCHANGED uiVars
  \/ Settle /\ UNCHANGED uiVars

SpecStats == Init /\ [][NextStats]_vars

(***************************************************************************)
(* resetData                                                               *)
(***************************************************************************)
\* mutation: the id counter is left as it is
resetDataKeepsNextId ==
  /\ customers' = mockCustomers
  /\ response' = [NoResponse EXCEPT !.op = "resetData"]
  /\ UNCHANGED <<nextId, now, pending, everIds, deleted, ops>>

\* this.customers = [...mockCustomers]; this.nextId = 9: a synchronous method
\* that returns nothing.  The copy is shallow, and no operation writes into a
\* seed object: updateCustomer stores a new object, splice and push work on
\* the copy.
resetData ==
  /\ customers' = mockCustomers
  /\ nextId' = NextIdInit
  /\ response' = [NoResponse EXCEPT !.op = "resetData"]
  /\ UNCHANGED <<now, pending, everIds, deleted, ops>>

NextReset ==
  \/ \E input \in CreateInputs : ops < MaxResetOps /\ createCustomer(input) /\ UNCHANGED uiVars
  \/ \E id \in UpdateIds, input \in Patches : ops < MaxResetOps /\ updateCustomer(id, input) /\ UNCHANGED uiVars
  \/ \E id \in DeleteIds : ops < MaxResetOps /\ deleteCustomer(id) /\ UNCHANGED uiVars
  \/ resetData /\ UNCHANGED uiVars
  \/ Tick /\ UNCHANGED uiVars
  \/ Settle /\ UNCHANGED uiVars

SpecReset == Init /\ [][NextReset]_vars

\* every public operation, with the inputs of each of its outcomes
CallCreateInputs ==
  {CreateInput("john smith", "ACME Inc", "js@acme.io", "premium", undefinedList),
   CreateInput(" ", "Acme Labs", undefined, undefined, undefinedList),
   CreateInput("Ann Lee", "Acme Labs", "john.smith@acmecorp.com", undefined, undefinedList),
   CreateInput("Ann Lee", "Acme Labs", undefined, undefined, <<"a.io", "-bad">>),
   CreateInput("Ann Lee", "Acme Labs", undefined, "premium", notAnArray)}

CallPatches ==
  {[NoPatch EXCEPT !.name = "Sarah Johnson-Smith"],
   [NoPatch EXCEPT !.healthScore = 141],
   [NoPatch EXCEPT !.email = "john.smith@acmecorp.com"],
   [NoPatch EXCEPT !.company = ""]}

CallIds == {"2", "9", "", " ", undefined}

SearchTerms == {undefined, "", "  ", "John", " john ", "ACME", "sarah@", "smith", "zzz"}

ScoreRanges ==
  {<<undefinedNumber, undefinedNumber>>, <<Points(0), Points(30)>>,
   <<Points(45), Points(85)>>, <<141, 141>>, <<Points(50), Points(40)>>,
   <<Points(-1), Points(50)>>, <<Points(50), Points(101)>>,
   <<Points(101), Points(200)>>, <<Points(-5), Points(-1)>>, <<Points(100), undefinedNumber>>}

Tiers == {"basic", "premium", "enterprise"}

CallOptions ==
  {Options(undefined, undefinedNumber, undefinedNumber, undefined, undefined,
           undefined, undefined, undefinedNumber, undefinedNumber),
   Options("premium", undefinedNumber, undefinedNumber, undefined, "a",
           "name", "desc", 2, 2)}

NextCalls ==
  \/ \E input \in CallCreateInputs : ops < MaxCallOps /\ createCustomer(input) /\ UNCHANGED uiVars
  \/ \E id \in CallIds, input \in CallPatches : ops < MaxCallOps /\ updateCustomer(id, input) /\ UNCHANGED uiVars
  \/ \E id \in CallIds : ops < MaxCallOps /\ deleteCustomer(id) /\ UNCHANGED uiVars
  \/ \E id \in CallIds : getCustomerById(id) /\ UNCHANGED uiVars
  \/ \E options \in CallOptions : getCustomers(options) /\ UNCHANGED uiVars
  \/ \E range \in ScoreRanges : getCustomersByHealthScore(range[1], range[2]) /\ UNCHANGED uiVars
  \/ \E tier \in Tiers : getCustomersByTier(tier) /\ UNCHANGED uiVars
  \/ \E searchTerm \in SearchTerms : searchCustomers(searchTerm) /\ UNCHANGED uiVars
  \/ getCustomerStats /\ UNCHANGED uiVars
  \/ Settle /\ UNCHANGED uiVars

SpecCalls == Init /\ [][NextCalls]_vars

(***************************************************************************)
(* The HTTP API: app/api/customers (GET, POST), app/api/customers/[id]     *)
(* (GET, PUT, DELETE), app/api/customers/search and app/api/customers/stats.*)
(* A request body is the parsed JSON document: kind tells an object from a  *)
(* document that does not parse and from one that is no object; an absent   *)
(* key is undefined and a JSON null is null.  A query parameter that is not *)
(* given is null, as URLSearchParams.get returns it.  A handler is one step:*)
(* the repository call it awaits runs without interruption and nothing that *)
(* the handler reads afterwards is shared.                                  *)
(***************************************************************************)
Body(kind, name, company, email, tier, domains, score) ==
  [kind |-> kind, name |-> name, company |-> company, email |-> email,
   subscriptionTier |-> tier, domains |-> domains, healthScore |-> score]

NoBody == Body("object", undefined, undefined, undefined, undefined, undefinedList,
               undefinedNumber)

NoQuery == Options(null, null, null, null, null, null, null, null, null)

\* String.prototype.replace(/[...]/g, '') for a class given as a set of characters
RECURSIVE removeChars(_, _)
removeChars(s, chars) ==
  IF s = "" THEN ""
  ELSE (IF Char(s, 1) \in chars THEN "" ELSE Char(s, 1))
         \o removeChars(SubSeq(s, 2, Len(s)), chars)

\* String.prototype.substring(0, n)
substring(s, n) == SubSeq(s, 1, Min(n, Len(s)))

sanitizeString(input) ==
  IF input \in {undefined, null, ""} THEN undefined
  ELSE substring(removeChars(trim(input), {"<", ">", "{", "}"}), 1000)

\* /^[a-zA-Z0-9._%+-]+@[a-zA-Z0-9.-]+\.[a-zA-Z]{2,}$/
emailRegex(s) ==
  \E a \in 2..Len(s) :
    /\ Char(s, a) = "@"
    /\ \A i \in 1..(a - 1) : IsAlnum(Char(s, i)) \/ Char(s, i) \in {".", "_", "%", "+", "-"}
    /\ \E d \in (a + 2)..(Len(s) - 2) :
         /\ Char(s, d) = "."
         /\ \A i \in (a + 1)..(d - 1) : IsAlnum(Char(s, i)) \/ Char(s, i) \in {".", "-"}
         /\ \A i \in (d + 1)..Len(s) : IsLetter(Char(s, i))

sanitizeEmail(email) ==
  IF email \in {undefined, null, ""} THEN undefined
  ELSE LET sanitized == sanitizeString(email)
       IN IF ~Truthy(sanitized) THEN undefined
          ELSE IF emailRegex(sanitized) THEN toLowerCase(sanitized)
          ELSE undefined

\* /^[a-zA-Z0-9][a-zA-Z0-9-]*[a-zA-Z0-9]*\.([a-zA-Z]{2,}(\.[a-zA-Z]{2,})*)$/
domainRegex(t) ==
  LET dots == {i \in 1..Len(t) : Char(t, i) = "."}
  IN /\ dots # {}
     /\ LET d == CHOOSE i \in dots : \A j \in dots : i <= j IN
        /\ d >= 2
        /\ IsAlnum(Char(t, 1))
        /\ \A i \in 2..(d - 1) : IsAlnum(Char(t, i)) \/ Char(t, i) = "-"
        /\ LetterLabels(SubSeq(t, d + 1, Len(t)))

sanitizeDomains(domains) ==
  IF domains = undefinedList \/ domains = notAnArray THEN undefinedList
  ELSE LET mapped == [i \in 1..Len(domains) |-> sanitizeString(domains[i])]
           valid(domain) == Truthy(domain) /\ domainRegex(domain) /\ Len(domain) <= 253
           sanitizedDomains == SelectSeq(mapped, valid)
       IN IF Len(sanitizedDomains) > 0 THEN sanitizedDomains ELSE undefinedList

validateSubscriptionTier(tier) ==
  IF tier \in {"basic", "premium", "enterprise"} THEN tier ELSE undefined

\* typeof score === 'number' && score >= 0 && score <= 100; every comparison
\* with NaN is false
validateHealthScore(score) ==
  IF score # undefinedNumber /\ score # NaN /\ score >= Points(0) /\ score <= Points(100)
    THEN score ELSE undefinedNumber

\* id.trim().replace(/[^a-zA-Z0-9-_]/g, '').substring(0, 50), null when empty
RECURSIVE keepIdChars(_)
keepIdChars(s) ==
  IF s = "" THEN ""
  ELSE (IF IsAlnum(Char(s, 1)) \/ Char(s, 1) \in {"-", "_"} THEN Char(s, 1) ELSE "")
         \o keepIdChars(SubSeq(s, 2, Len(s)))

sanitizeId(id) ==
  IF ~Truthy(id) THEN null
  ELSE LET sanitized == substring(keepIdChars(trim(id)), 50)
       IN IF Len(sanitized) > 0 THEN sanitized ELSE null

\* the digits at the head of a string, and their value
RECURSIVE leadingDigits(_)
leadingDigits(s) ==
  IF s # "" /\ IsDigit(Char(s, 1)) THEN Char(s, 1) \o leadingDigits(SubSeq(s, 2, Len(s)))
  ELSE ""

RECURSIVE digitsValue(_)
digitsValue(s) ==
  IF s = "" THEN 0
  ELSE 10 * digitsValue(SubSeq(s, 1, Len(s) - 1))
         + (CHOOSE v \in 0..9 : Char(Digits, v + 1) = Char(s, Len(s)))

\* parseInt(param, 10): blanks, a sign, then digits; NaN when no digit follows
parseInt(param) ==
  LET t == trimStart(param)
      signed == t # "" /\ Char(t, 1) \in {"-", "+"}
      digits == leadingDigits(IF signed THEN SubSeq(t, 2, Len(t)) ELSE t)
  IN IF digits = "" THEN NaN
     ELSE IF signed /\ Char(t, 1) = "-" THEN 0 - digitsValue(digits)
     ELSE digitsValue(digits)

parseNumericParam(param, min, max) ==
  IF param = null \/ param = "" THEN undefinedNumber
  ELSE LET num == parseInt(param)
       IN IF num # NaN /\ num >= min /\ num <= max THEN num ELSE undefinedNumber

(***************************************************************************)
(* Responses of the API.                                                   *)
(***************************************************************************)
\* NextResponse.json(...): service is the result of the repository call the
\* handler made, NoResponse when it made none
HttpResponse(method, endpoint, id, body, status, success, code, data, service) ==
  [method |-> method, endpoint |-> endpoint, status |-> status, success |-> success,
   code |-> code, etag |-> undefined, ifNoneMatch |-> undefined, id |-> id,
   body |-> body, data |-> data, service |-> service]

createErrorResponse(method, endpoint, id, body, status, code, service) ==
  HttpResponse(method, endpoint, id, body, status, FALSE,
               IF Truthy(code) THEN code ELSE "VALIDATION_ERROR", <<>>, service)

createSuccessResponse(method, endpoint, id, body, status, data, service) ==
  HttpResponse(method, endpoint, id, body, status, TRUE, "", data, service)

(***************************************************************************)
(* POST /api/customers                                                     *)
(***************************************************************************)
\* the code of the error response the handler returns before it calls the
\* repository, "" when it reaches the call
postRouteError(rawData) ==
  LET name == sanitizeString(rawData.name)
      company == sanitizeString(rawData.company)
      email == sanitizeEmail(rawData.email)
      domains == sanitizeDomains(rawData.domains)
  IN IF rawData.kind = "unparsable" THEN "INVALID_JSON"
     ELSE IF rawData.kind # "object" THEN "INVALID_BODY"
     ELSE IF ~Truthy(name) THEN "MISSING_NAME"
     ELSE IF ~Truthy(company) THEN "MISSING_COMPANY"
     ELSE IF Len(name) > 100 THEN "NAME_TOO_LONG"
     ELSE IF Len(company) > 100 THEN "COMPANY_TOO_LONG"
     ELSE IF Truthy(email) /\ Len(email) > 254 THEN "EMAIL_TOO_LONG"
     ELSE IF domains # undefinedList /\ Len(domains) > 10 THEN "TOO_MANY_DOMAINS"
     ELSE ""

createInput(rawData) ==
  CreateInput(sanitizeString(rawData.name), sanitizeString(rawData.company),
              sanitizeEmail(rawData.email),
              IF Truthy(validateSubscriptionTier(rawData.subscriptionTier))
                THEN validateSubscriptionTier(rawData.subscriptionTier) ELSE "basic",
              sanitizeDomains(rawData.domains))

\* let statusCode = 400, 409 for DUPLICATE_ERROR, 500 for INTERNAL_ERROR
postStatusCode(code) ==
  IF code = "DUPLICATE_ERROR" THEN 409
  ELSE IF code = "INTERNAL_ERROR" THEN 500
  ELSE 400

POST(rawData) ==
  /\ requests' = requests + 1
  /\ LET code == postRouteError(rawData)
     IN IF code # ""
          THEN /\ http' = createErrorResponse("POST", "/api/customers", "", rawData, 400, code,
                                              NoResponse)
               /\ UNCHANGED <<serviceVars, issued>>
          ELSE /\ createCustomer(createInput(rawData))
               /\ http' = IF response'.success
                            THEN createSuccessResponse("POST", "/api/customers", "", rawData, 201,
                                                       response'.data, response')
                            ELSE createErrorResponse("POST", "/api/customers", "", rawData,
                                                     postStatusCode(response'.code),
                                                     response'.code, response')
               /\ UNCHANGED issued

(***************************************************************************)
(* GET, PUT and DELETE /api/customers/[id]                                 *)
(***************************************************************************)
\* 404 for NOT_FOUND, 500 for INTERNAL_ERROR, 400 otherwise
getStatusCode(code) ==
  IF code = "NOT_FOUND" THEN 404
  ELSE IF code = "INTERNAL_ERROR" THEN 500
  ELSE 400

GET(id) ==
  /\ requests' = requests + 1
  /\ LET customerId == sanitizeId(id)
     IN IF customerId = null
          THEN /\ http' = createErrorResponse("GET", "/api/customers/[id]", id, NoBody, 400,
                                              "INVALID_ID", NoResponse)
               /\ UNCHANGED <<serviceVars, issued>>
          ELSE /\ getCustomerById(customerId)
               /\ http' = IF response'.success
                            THEN createSuccessResponse("GET", "/api/customers/[id]", id, NoBody,
                                                       200, response'.data, response')
                            ELSE createErrorResponse("GET", "/api/customers/[id]", id, NoBody,
                                                     getStatusCode(response'.code),
                                                     response'.code, response')
               /\ UNCHANGED issued

\* the code of the error response PUT returns before it calls the repository
putRouteError(id, rawData) ==
  LET name == sanitizeString(rawData.name)
      company == sanitizeString(rawData.company)
      email == sanitizeEmail(rawData.email)
  IN IF sanitizeId(id) = null THEN "INVALID_ID"
     ELSE IF rawData.kind = "unparsable" THEN "INVALID_JSON"
     ELSE IF rawData.kind # "object" THEN "INVALID_BODY"
     ELSE IF name # undefined /\ name = "" THEN "EMPTY_NAME"
     ELSE IF name # undefined /\ Len(name) > 100 THEN "NAME_TOO_LONG"
     ELSE IF company # undefined /\ company = "" THEN "EMPTY_COMPANY"
     ELSE IF company # undefined /\ Len(company) > 100 THEN "COMPANY_TOO_LONG"
     ELSE IF rawData.email \notin {undefined, null, ""} /\ Truthy(email) /\ Len(email) > 254
       THEN "EMAIL_TOO_LONG"
     ELSE IF rawData.email \notin {undefined, null, ""} /\ ~Truthy(email) THEN "INVALID_EMAIL"
     ELSE IF rawData.subscriptionTier # undefined
             /\ ~Truthy(validateSubscriptionTier(rawData.subscriptionTier))
       THEN "INVALID_TIER"
     ELSE IF rawData.domains # undefinedList /\ rawData.domains # notAnArray
             /\ Len(rawData.domains) > 10
       THEN "TOO_MANY_DOMAINS"
     ELSE IF rawData.domains = notAnArray THEN "INVALID_DOMAINS_FORMAT"
     ELSE IF rawData.healthScore # undefinedNumber
             /\ validateHealthScore(rawData.healthScore) = undefinedNumber
       THEN "INVALID_HEALTH_SCORE"
     ELSE ""

\* Object.keys(updateInput): a key that was assigned undefined is a key
updateInputKeys(rawData) ==
  {k \in {"name"} : sanitizeString(rawData.name) # undefined}
    \cup {k \in {"company"} : sanitizeString(rawData.company) # undefined}
    \cup {k \in {"email"} : rawData.email # undefined}
    \cup {k \in {"subscriptionTier"} : rawData.subscriptionTier # undefined}
    \cup {k \in {"domains"} : rawData.domains # undefinedList}
    \cup {k \in {"healthScore"} : rawData.healthScore # undefinedNumber}

\* the values of updateInput; the email is undefined when the body asks to
\* clear it (null or '')
updateInput(rawData) ==
  Patch(sanitizeString(rawData.name), sanitizeString(rawData.company),
        IF rawData.email \in {undefined, null, ""} THEN undefined
        ELSE sanitizeEmail(rawData.email),
        IF rawData.subscriptionTier = undefined THEN undefined
        ELSE validateSubscriptionTier(rawData.subscriptionTier),
        IF rawData.domains = undefinedList THEN undefinedList
        ELSE IF sanitizeDomains(rawData.domains) = undefinedList THEN <<>>
        ELSE sanitizeDomains(rawData.domains),
        IF rawData.healthScore = undefinedNumber THEN undefinedNumber
        ELSE validateHealthScore(rawData.healthScore))

\* mutation: a duplicate is answered as a plain bad request
putStatusCodeNoConflict(code) ==
  IF code = "NOT_FOUND" THEN 404
  ELSE IF code = "INTERNAL_ERROR" THEN 500
  ELSE 400

\* 404 for NOT_FOUND, 409 for DUPLICATE_ERROR, 500 for INTERNAL_ERROR, 400 otherwise
putStatusCode(code) ==
  IF code = "NOT_FOUND" THEN 404
  ELSE IF code = "DUPLICATE_ERROR" THEN 409
  ELSE IF code = "INTERNAL_ERROR" THEN 500
  ELSE 400

PUT(id, rawData) ==
  /\ requests' = requests + 1
  /\ LET customerId == sanitizeId(id)
         code == IF putRouteError(id, rawData) # "" THEN putRouteError(id, rawData)
                 ELSE IF updateInputKeys(rawData) = {} THEN "NO_UPDATE_FIELDS"
                 ELSE ""
     IN IF code # ""
          THEN /\ http' = createErrorResponse("PUT", "/api/customers/[id]", id, rawData, 400,
                                              code, NoResponse)
               /\ UNCHANGED <<serviceVars, issued>>
          ELSE /\ updateCustomer(customerId, updateInput(rawData))
               /\ http' = IF response'.success
                            THEN createSuccessResponse("PUT", "/api/customers/[id]", id, rawData,
                                                       200, response'.data, response')
                            ELSE createErrorResponse("PUT", "/api/customers/[id]", id, rawData,
                                                     putStatusCode(response'.code),
                                                     response'.code, response')
               /\ UNCHANGED issued

\* 404 for NOT_FOUND, 500 for INTERNAL_ERROR, 400 otherwise
deleteStatusCode(code) ==
  IF code = "NOT_FOUND" THEN 404
  ELSE IF code = "INTERNAL_ERROR" THEN 500
  ELSE 400

DELETE(id) ==
  /\ requests' = requests + 1
  /\ LET customerId == sanitizeId(id)
     IN IF customerId = null
          THEN /\ http' = createErrorResponse("DELETE", "/api/customers/[id]", id, NoBody, 400,
                                              "INVALID_ID", NoResponse)
               /\ UNCHANGED <<serviceVars, issued>>
          ELSE /\ deleteCustomer(customerId)
               /\ http' = IF response'.success
                            THEN createSuccessResponse("DELETE", "/api/customers/[id]", id,
                                                       NoBody, 200, <<customerId>>, response')
                            ELSE createErrorResponse("DELETE", "/api/customers/[id]", id, NoBody,
                                                     deleteStatusCode(response'.code),
                                                     response'.code, response')
               /\ UNCHANGED issued

(***************************************************************************)
(* GET /api/customers                                                      *)
(***************************************************************************)
\* the options the handler builds from the query; scores are given in points
listOptions(query) ==
  LET page == parseNumericParam(query.page, 1, 1000)
      limit == parseNumericParam(query.limit, 1, 100)
      healthScoreMin == parseNumericParam(query.healthScoreMin, 0, 100)
      healthScoreMax == parseNumericParam(query.healthScoreMax, 0, 100)
      company == sanitizeString(query.company)
      searchTerm == sanitizeString(query.searchTerm)
  IN Options(validateSubscriptionTier(query.subscriptionTier),
             IF healthScoreMin # undefinedNumber THEN Points(healthScoreMin)
             ELSE undefinedNumber,
             IF healthScoreMax # undefinedNumber THEN Points(healthScoreMax)
             ELSE undefinedNumber,
             IF Truthy(company) THEN company ELSE undefined,
             IF Truthy(searchTerm) THEN searchTerm ELSE undefined,
             IF query.sortBy \in {"id", "name", "company", "healthScore", "createdAt",
                                  "updatedAt"}
               THEN query.sortBy ELSE undefined,
             IF query.sortOrder \in {"asc", "desc"} THEN query.sortOrder ELSE undefined,
             page, limit)

listRouteError(query) ==
  LET healthScoreMin == parseNumericParam(query.healthScoreMin, 0, 100)
      healthScoreMax == parseNumericParam(query.healthScoreMax, 0, 100)
  IN IF healthScoreMin # undefinedNumber /\ healthScoreMax # undefinedNumber
        /\ healthScoreMin > healthScoreMax
       THEN "INVALID_RANGE" ELSE ""

listGET(query) ==
  /\ requests' = requests + 1
  /\ IF listRouteError(query) # ""
       THEN /\ http' = createErrorResponse("GET", "/api/customers", "", query, 400,
                                           listRouteError(query), NoResponse)
            /\ UNCHANGED <<serviceVars, issued>>
       ELSE /\ getCustomers(listOptions(query))
            /\ http' = IF response'.success
                         THEN createSuccessResponse("GET", "/api/customers", "", query, 200,
                                                    response'.data, response')
                         ELSE createErrorResponse("GET", "/api/customers", "", query, 500,
                                                  response'.code, response')
            /\ UNCHANGED issued

(***************************************************************************)
(* GET /api/customers/search                                               *)
(***************************************************************************)
IsWord(c) == IsAlnum(c) \/ c = "_"

\* .replace(/[^\w\s@.-]/g, '')
RECURSIVE keepSearchChars(_)
keepSearchChars(s) ==
  IF s = "" THEN ""
  ELSE (IF IsWord(Char(s, 1)) \/ IsSpace(Char(s, 1)) \/ Char(s, 1) \in {"@", ".", "-"}
          THEN Char(s, 1) ELSE "")
         \o keepSearchChars(SubSeq(s, 2, Len(s)))

sanitizeSearchTerm(input) ==
  IF input \in {undefined, null, ""} THEN undefined
  ELSE LET sanitized ==
             substring(keepSearchChars(removeChars(trim(input), {"<", ">", "{", "}"})), 100)
       IN IF Len(sanitized) > 0 THEN sanitized ELSE undefined

\* /on\w+=/i
eventHandlerPattern(lower) ==
  \E i \in 1..Len(lower), j \in 1..Len(lower) :
    /\ j >= i + 3
    /\ SubSeq(lower, i, i + 1) = "on"
    /\ \A k \in (i + 2)..(j - 1) : IsWord(Char(lower, k))
    /\ Char(lower, j) = "="

\* /{{\s*\w+\s*}}/
templateExpressionPattern(s) ==
  \E i \in 1..Len(s), j \in 1..Len(s) :
    /\ j >= i + 3
    /\ SubSeq(s, i, i + 1) = "{{"
    /\ SubSeq(s, j, j + 1) = "}}"
    /\ LET inner == trim(SubSeq(s, i + 2, j - 1))
       IN inner # "" /\ \A k \in 1..Len(inner) : IsWord(Char(inner, k))

\* /\$\{.*\}/
templateLiteralPattern(s) ==
  \E i \in 1..Len(s), j \in 1..Len(s) :
    j >= i + 2 /\ SubSeq(s, i, i + 1) = "${" /\ Char(s, j) = "}"

\* suspiciousPatterns.some(pattern => pattern.test(rawSearchTerm))
isSuspicious(rawSearchTerm) ==
  \/ includes(rawSearchTerm, "<") \/ includes(rawSearchTerm, ">")
  \/ includes(toLowerCase(rawSearchTerm), "javascript:")
  \/ includes(toLowerCase(rawSearchTerm), "data:")
  \/ includes(toLowerCase(rawSearchTerm), "vbscript:")
  \/ eventHandlerPattern(toLowerCase(rawSearchTerm))
  \/ templateExpressionPattern(rawSearchTerm)
  \/ templateLiteralPattern(rawSearchTerm)

searchRouteError(query) ==
  LET searchTerm == sanitizeSearchTerm(query.q)
  IN IF query.q = null \/ query.q = "" THEN "MISSING_SEARCH_TERM"
     ELSE IF ~Truthy(searchTerm) THEN "INVALID_SEARCH_TERM"
     ELSE IF Len(searchTerm) < 2 THEN "SEARCH_TERM_TOO_SHORT"
     ELSE IF isSuspicious(query.q) THEN "SUSPICIOUS_PATTERN"
     ELSE ""

DefaultSearchLimit == 20

searchGET(query) ==
  /\ requests' = requests + 1
  /\ LET searchTerm == sanitizeSearchTerm(query.q)
         parsed == parseNumericParam(query.limit, 1, 100)
         limit == IF parsed # undefinedNumber THEN parsed ELSE DefaultSearchLimit
     IN IF searchRouteError(query) # ""
          THEN /\ http' = createErrorResponse("GET", "/api/customers/search", "", query, 400,
                                              searchRouteError(query), NoResponse)
               /\ UNCHANGED <<serviceVars, issued>>
          ELSE /\ searchCustomers(searchTerm)
               /\ http' = IF response'.success
                            THEN createSuccessResponse("GET", "/api/customers/search", "", query,
                                                       200, slice(response'.data, 0, limit),
                                                       response')
                            ELSE createErrorResponse("GET", "/api/customers/search", "", query,
                                                     500, response'.code, response')
               /\ UNCHANGED issued

(***************************************************************************)
(* GET /api/customers/stats                                                *)
(***************************************************************************)
\* the characters of the codes 32 to 126, in the order of their codes; a tab
\* stands in the place of the grave accent (code 96)
Ascii ==
  " !\"#$%&'()*+,-./0123456789:;<=>?@ABCDEFGHIJKLMNOPQRSTUVWXYZ[\\]^_\tabcdefghijklmnopqrstuvwxyz{|}~"

CharCodes ==
  [c \in {Char(Ascii, i) : i \in 1..Len(Ascii)} |->
     31 + (CHOOSE i \in 1..Len(Ascii) : Char(Ascii, i) = c)]

\* String.prototype.charCodeAt
charCode(c) == CharCodes[c]

Base64Alphabet == "ABCDEFGHIJKLMNOPQRSTUVWXYZabcdefghijklmnopqrstuvwxyz0123456789+/"

base64Char(n) == Char(Base64Alphabet, n + 1)

\* Buffer.from(s).toString('base64') for a string of one-byte characters
RECURSIVE base64(_)
base64(s) ==
  IF s = "" THEN ""
  ELSE IF Len(s) = 1
    THEN LET n == charCode(Char(s, 1)) * 65536
         IN base64Char(n \div 262144) \o base64Char((n \div 4096) % 64) \o "=="
  ELSE IF Len(s) = 2
    THEN LET n == charCode(Char(s, 1)) * 65536 + charCode(Char(s, 2)) * 256
         IN base64Char(n \div 262144) \o base64Char((n \div 4096) % 64)
              \o base64Char((n \div 64) % 64) \o "="
  ELSE LET n == charCode(Char(s, 1)) * 65536 + charCode(Char(s, 2)) * 256
                  + charCode(Char(s, 3))
       IN base64Char(n \div 262144) \o base64Char((n \div 4096) % 64)
            \o base64Char((n \div 64) % 64) \o base64Char(n % 64)
            \o base64(SubSeq(s, 4, Len(s)))

\* JSON.stringify of a number: NaN is written as null; an average is a whole
\* number of points
jsonNumber(n) == IF n = NaN THEN "null" ELSE toString(n)

MinutesPerDay == 1440

\* JSON.stringify({ total, averageHealthScore, timestamp }), the timestamp
\* being Math.floor(now.getTime() / 60000)
etagPayload(stats, t) ==
  "{\"total\":" \o jsonNumber(stats.total)
    \o ",\"averageHealthScore\":"
    \o jsonNumber(IF stats.averageHealthScore = NaN THEN NaN
                  ELSE stats.averageHealthScore \div ScoreUnit)
    \o ",\"timestamp\":" \o jsonNumber(t * MinutesPerDay) \o "}"

\* `"stats-${Buffer.from(JSON.stringify({...})).toString('base64').slice(0, 16)}"`
statsEtag(stats, t) ==
  "\"stats-" \o substring(base64(etagPayload(stats, t)), 16) \o "\""

\* total < 0 || averageHealthScore < 0 || averageHealthScore > 100: false for NaN
integrityCheckFailed(stats) ==
  \/ stats.total < 0
  \/ stats.averageHealthScore # NaN
       /\ (stats.averageHealthScore < Points(0) \/ stats.averageHealthScore > Points(100))

statsGET(ifNoneMatch) ==
  /\ requests' = requests + 1
  /\ getCustomerStats
  /\ LET stats == response'.data[1]
         etag == statsEtag(stats, now)
         answer ==
           IF ~response'.success
             THEN createErrorResponse("GET", "/api/customers/stats", "", NoBody, 500,
                                      "SERVICE_ERROR", response')
           ELSE IF ifNoneMatch = etag
             THEN [HttpResponse("GET", "/api/customers/stats", "", NoBody, 304, TRUE, "",
                                <<>>, response') EXCEPT !.etag = etag]
           ELSE IF integrityCheckFailed(stats)
             THEN createErrorResponse("GET", "/api/customers/stats", "", NoBody, 500,
                                      "DATA_INTEGRITY_ERROR", response')
           ELSE [createSuccessResponse("GET", "/api/customers/stats", "", NoBody, 200,
                                       <<stats>>, response') EXCEPT !.etag = etag]
     IN /\ http' = [answer EXCEPT !.ifNoneMatch = ifNoneMatch]
        /\ issued' = IF answer.status = 200
                       THEN issued \cup {[etag |-> etag, stats |-> stats]}
                       ELSE issued

(***************************************************************************)
(* POST, PUT and DELETE of /api/customers/search and /api/customers/stats  *)
(***************************************************************************)
methodNotAllowed(method, endpoint) ==
  /\ requests' = requests + 1
  /\ http' = createErrorResponse(method, endpoint, "", NoBody, 405, "METHOD_NOT_ALLOWED",
                                 NoResponse)
  /\ UNCHANGED <<serviceVars, issued>>

(***************************************************************************)
(* Requests to the API: a request for each answer of each handler.         *)
(***************************************************************************)
PostBodies ==
  {[NoBody EXCEPT !.name = " Ann Lee ", !.company = "Acme <Labs>", !.email = "Ann@New.io"],
   [NoBody EXCEPT !.name = "Ann Lee", !.company = "Acme Labs",
                  !.email = "john.smith@acmecorp.com"],
   [NoBody EXCEPT !.name = "Ann Lee", !.company = "Acme Labs", !.email = "ann at new.io",
                  !.subscriptionTier = "gold", !.domains = <<"new.io", "not a domain">>],
   [NoBody EXCEPT !.company = "Acme Labs"],
   [NoBody EXCEPT !.name = "Ann Lee", !.company = "Acme Labs", !.domains = ElevenDomains],
   [NoBody EXCEPT !.kind = "unparsable"],
   [NoBody EXCEPT !.kind = "string"]}

PutCalls ==
  {<<"2", [NoBody EXCEPT !.email = null]>>,
   <<"2", [NoBody EXCEPT !.email = ""]>>,
   <<"2", [NoBody EXCEPT !.email = "John.Smith@AcmeCorp.com"]>>,
   <<"2", [NoBody EXCEPT !.email = "sarah at techstart"]>>,
   <<"2", [NoBody EXCEPT !.subscriptionTier = "enterprise"]>>,
   <<"2", [NoBody EXCEPT !.name = "Sarah J", !.healthScore = Points(50)]>>,
   <<"2", [NoBody EXCEPT !.name = "   "]>>,
   <<"2", [NoBody EXCEPT !.healthScore = Points(101)]>>,
   <<"2", [NoBody EXCEPT !.domains = notAnArray]>>,
   <<"2", NoBody>>,
   <<"99", [NoBody EXCEPT !.company = "Nobody Inc"]>>,
   <<"#", [NoBody EXCEPT !.company = "Nobody Inc"]>>}

HttpIds == {"1", " 2 ", "99", "#"}

ListQueries ==
  {NoQuery,
   [NoQuery EXCEPT !.page = "2", !.limit = "3", !.sortBy = "name", !.sortOrder = "desc"],
   [NoQuery EXCEPT !.subscriptionTier = "premium", !.healthScoreMin = "70",
                   !.healthScoreMax = "100", !.limit = "many"],
   [NoQuery EXCEPT !.healthScoreMin = "80", !.healthScoreMax = "20"]}

SearchQuery(q, limit) == [q |-> q, limit |-> limit]

SearchQueries ==
  {SearchQuery(null, null), SearchQuery(" John ", "2"), SearchQuery("j", null),
   SearchQuery("{}", null), SearchQuery("<b>john", null), SearchQuery("acme!", "0")}

ReadOnlyEndpoints == {"/api/customers/search", "/api/customers/stats"}

\* the If-None-Match header: none, or a tag a 200 response has issued
IfNoneMatchValues == {null} \cup {i.etag : i \in issued}

NextHttp ==
  \/ \E rawData \in PostBodies : requests < MaxRequests /\ POST(rawData) /\ UNCHANGED clientVars
  \/ \E call \in PutCalls : requests < MaxRequests /\ PUT(call[1], call[2]) /\ UNCHANGED clientVars
  \/ \E id \in HttpIds : requests < MaxRequests /\ DELETE(id) /\ UNCHANGED clientVars
  \/ \E id \in HttpIds : requests < MaxRequests /\ GET(id) /\ UNCHANGED clientVars
  \/ \E query \in ListQueries : requests < MaxRequests /\ listGET(query) /\ UNCHANGED clientVars
  \/ \E query \in SearchQueries : requests < MaxRequests /\ searchGET(query) /\ UNCHANGED clientVars
  \/ \E ifNoneMatch \in IfNoneMatchValues : requests < MaxRequests /\ statsGET(ifNoneMatch) /\ UNCHANGED clientVars
  \/ \E method \in {"POST", "PUT", "DELETE"}, endpoint \in ReadOnlyEndpoints :
       requests < MaxRequests /\ methodNotAllowed(method, endpoint) /\ UNCHANGED clientVars

SpecHttp == Init /\ [][NextHttp]_vars

\* conditional requests for the statistics between changes of the collection
EtagPutCalls ==
  {<<"2", [NoBody EXCEPT !.subscriptionTier = "enterprise"]>>,
   <<"5", [NoBody EXCEPT !.healthScore = Points(90)]>>}

EtagPostBodies ==
  {[NoBody EXCEPT !.name = "Ann Lee", !.company = "Acme Labs", !.email = "ann@new.io"]}

NextEtag ==
  \/ \E ifNoneMatch \in IfNoneMatchValues :
       requests < MaxEtagRequests /\ statsGET(ifNoneMatch) /\ UNCHANGED clientVars
  \/ \E call \in EtagPutCalls : requests < MaxEtagRequests /\ PUT(call[1], call[2]) /\ UNCHANGED clientVars
  \/ \E rawData \in EtagPostBodies : requests < MaxEtagRequests /\ POST(rawData) /\ UNCHANGED clientVars
  \/ \E id \in {"1"} : requests < MaxEtagRequests /\ DELETE(id) /\ UNCHANGED clientVars
  \/ Tick /\ UNCHANGED uiVars
  \/ Settle /\ UNCHANGED uiVars

SpecEtag == Init /\ [][NextEtag]_vars

(***************************************************************************)
(* The toast notifications: ToastProvider, ToastContainer and ToastItem.   *)
(***************************************************************************)
\* showToast is called at most MaxToasts times
MaxToasts == 2

\* the dismiss buttons are clicked at most MaxDismissClicks times
MaxDismissClicks == 1

\* the key "duration" is missing from the object given to showToast
absentNumber == -997

DefaultDuration == 5000

\* Math.random().toString(36).substring(2, 9) at the n-th call of showToast: seven characters
\* in base 36, taken to differ from one call to the next
randomId(n) == "k3j9x2" \o toString(n)

\* the ids that showToast returns
ToastIds == {randomId(n) : n \in 1..MaxToasts}

\* the objects given to showToast, by their duration: none, as useSuccessToast gives it, and
\* 0 for no auto-dismiss
ToastData ==
  {[type |-> "success", duration |-> absentNumber],
   [type |-> "info", duration |-> 0]}

\* { id, duration: 5000, ...toastData }; n numbers the calls of showToast
newToast(id, toastData, n) ==
  [id |-> id,
   type |-> toastData.type,
   duration |-> IF toastData.duration = absentNumber THEN DefaultDuration
                ELSE toastData.duration,
   n |-> n]

\* the ToastItem of a toast that is not rendered yet
newToastItem(toast) ==
  [id |-> toast.id, duration |-> toast.duration, mounted |-> FALSE, timer |-> "none",
   dismissals |-> 0]

InList(n) == \E i \in 1..Len(toasts) : toasts[i].n = n

showToast(toastData) ==
  /\ LET id == randomId(Len(toastItems) + 1)
         toast == newToast(id, toastData, Len(toastItems) + 1)
     IN /\ toasts' = Append(toasts, toast)
        /\ toastItems' = Append(toastItems, newToastItem(toast))
        /\ toastEvent' = [op |-> "showToast", id |-> id, n |-> toast.n, toastData |-> toastData]
  /\ UNCHANGED clicks

\* prev.filter(toast => toast.id !== id)
withoutToast(prev, id) == SelectSeq(prev, LAMBDA toast : toast.id # id)

hideToast(id) ==
  /\ toasts' = withoutToast(toasts, id)
  /\ toastEvent' = [op |-> "hideToast", id |-> id, n |-> 0, toastData |-> <<>>]
  /\ UNCHANGED <<toastItems, clicks>>

hideAllToasts ==
  /\ toasts' = <<>>
  /\ toastEvent' = [op |-> "hideAllToasts", id |-> "", n |-> 0, toastData |-> <<>>]
  /\ UNCHANGED <<toastItems, clicks>>

\* the condition of the auto-dismiss effect: toast.duration && toast.duration > 0
shouldAutoDismissAlways(duration) == TRUE

shouldAutoDismiss(duration) ==
  duration # undefinedNumber /\ duration # 0 /\ duration > 0

\* a render of ToastContainer with its effects: the ToastItem of every toast that entered the
\* list is mounted and its auto-dismiss effect runs; the ToastItem of every toast that left the
\* list is unmounted and the cleanup of the effect clears the timer
renderedItem(n) ==
  LET item == toastItems[n]
  IN IF InList(n) /\ ~item.mounted
       THEN [item EXCEPT !.mounted = TRUE,
                         !.timer = IF shouldAutoDismiss(item.duration) THEN "armed" ELSE "none"]
     ELSE IF ~InList(n) /\ item.mounted
       THEN [item EXCEPT !.mounted = FALSE,
                         !.timer = IF item.timer = "armed" THEN "cleared" ELSE item.timer]
     ELSE item

render ==
  /\ \E n \in 1..Len(toastItems) : InList(n) # toastItems[n].mounted
  /\ toastItems' = [n \in 1..Len(toastItems) |-> renderedItem(n)]
  /\ UNCHANGED <<toasts, toastEvent, clicks>>

\* handleDismiss: setIsLeaving(true) and a 300 ms timeout, which nothing clears, for onDismiss
handleDismiss(items, n) == [items EXCEPT ![n].dismissals = @ + 1]

\* the timeout of the auto-dismiss effect fires after toast.duration
autoDismiss(n) ==
  /\ n <= Len(toastItems)
  /\ toastItems[n].timer = "armed"
  /\ toastItems' = handleDismiss([toastItems EXCEPT ![n].timer = "fired"], n)
  /\ UNCHANGED <<toasts, toastEvent, clicks>>

\* the user clicks the dismiss button of a rendered toast
clickDismiss(n) ==
  /\ n <= Len(toastItems)
  /\ toastItems[n].mounted
  /\ toastItems' = handleDismiss(toastItems, n)
  /\ clicks' = clicks + 1
  /\ UNCHANGED <<toasts, toastEvent>>

\* the 300 ms timeout of handleDismiss fires: onDismiss(toast.id), which is hideToast
dismissTimeout(n) ==
  /\ n <= Len(toastItems)
  /\ toastItems[n].dismissals > 0
  /\ toasts' = withoutToast(toasts, toastItems[n].id)
  /\ toastItems' = [toastItems EXCEPT ![n].dismissals = @ - 1]
  /\ toastEvent' = [op |-> "dismissTimeout", id |-> toastItems[n].id, n |-> n,
                    toastData |-> <<>>]
  /\ UNCHANGED clicks

NextToast ==
  \/ \E toastData \in ToastData :
       Len(toastItems) < MaxToasts /\ showToast(toastData)
         /\ UNCHANGED <<serviceVars, httpVars, listVars, hookVars>>
  \/ \E id \in ToastIds : hideToast(id) /\ UNCHANGED <<serviceVars, httpVars, listVars, hookVars>>
  \/ hideAllToasts /\ UNCHANGED <<serviceVars, httpVars, listVars, hookVars>>
  \/ render /\ UNCHANGED <<serviceVars, httpVars, listVars, hookVars>>
  \/ \E n \in 1..MaxToasts : autoDismiss(n) /\ UNCHANGED <<serviceVars, httpVars, listVars, hookVars>>
  \/ \E n \in 1..MaxToasts : clicks < MaxDismissClicks /\ clickDismiss(n)
         /\ UNCHANGED <<serviceVars, httpVars, listVars, hookVars>>
  \/ \E n \in 1..MaxToasts : dismissTimeout(n) /\ UNCHANGED <<serviceVars, httpVars, listVars, hookVars>>

SpecToast == Init /\ [][NextToast]_vars

\* React renders after a change of state and the browser fires every timer that is not
\* cleared; nothing obliges the user or the application to act
ToastFairness ==
  /\ WF_vars(render /\ UNCHANGED <<serviceVars, httpVars, listVars, hookVars>>)
  /\ \A n \in 1..MaxToasts :
       /\ WF_vars(autoDismiss(n) /\ UNCHANGED <<serviceVars, httpVars, listVars, hookVars>>)
       /\ WF_vars(dismissTimeout(n) /\ UNCHANGED <<serviceVars, httpVars, listVars, hookVars>>)

FairSpecToast == SpecToast /\ ToastFairness


(***************************************************************************)
(* The CustomerList component, rendered by CustomerManager.                *)
(***************************************************************************)
\* deleteCustomer is called at most MaxListOps times while the list is shown
MaxListOps == 2

\* the Next button is not clicked beyond page MaxPage
MaxPage == 4

\* the itemsPerPage prop of the rendered list; 12 when the parent gives none
ItemsPerPage == 3

\* useCustomers: getCustomers({ page: 1, limit: 10, ...options }) with no options
useCustomersOptions ==
  Options(undefined, undefinedNumber, undefinedNumber, undefined, undefined, undefined,
          undefined, 1, 10)

\* customers?.data || [] after a fetch
customerList == getCustomersResult(useCustomersOptions).data

\* a < b for two strings: the code units are compared from the left
RECURSIVE stringLess(_, _)
stringLess(a, b) ==
  IF b = "" THEN FALSE
  ELSE IF a = "" THEN TRUE
  ELSE IF charCode(Char(a, 1)) # charCode(Char(b, 1))
    THEN charCode(Char(a, 1)) < charCode(Char(b, 1))
  ELSE stringLess(SubSeq(a, 2, Len(a)), SubSeq(b, 2, Len(b)))

\* the comparator of filteredAndSortedCustomers; createdAt is held as a number
listCompare(a, b, by, order) ==
  LET isString == by \in {"name", "company"}
      aValue == IF isString THEN toLowerCase(a[by]) ELSE a[by]
      bValue == IF isString THEN toLowerCase(b[by]) ELSE b[by]
      less == IF isString THEN stringLess(aValue, bValue) ELSE aValue < bValue
      greater == IF isString THEN stringLess(bValue, aValue) ELSE aValue > bValue
      comparison == IF greater THEN 1 ELSE IF less THEN -1 ELSE 0
  IN IF order = "desc" THEN -comparison ELSE comparison

\* Array.prototype.sort with that comparator: the sort is stable
RECURSIVE sortList(_, _, _)
sortList(result, by, order) ==
  IF result = <<>> THEN result
  ELSE LET x == result[Len(result)]
           sorted == sortList(SubSeq(result, 1, Len(result) - 1), by, order)
           k == Cardinality({i \in 1..Len(sorted) : listCompare(sorted[i], x, by, order) <= 0})
       IN SubSeq(sorted, 1, k) \o <<x>> \o SubSeq(sorted, k + 1, Len(sorted))

filteredAndSortedCustomers ==
  LET searchLower == trim(toLowerCase(listState.searchTerm))
      bySearch(customer) == matchesSearchTerm(customer, searchLower)
      byTier(customer) == customer.subscriptionTier = listState.filterTier
      searched == IF trim(listState.searchTerm) # "" THEN SelectSeq(listState.customers, bySearch)
                  ELSE listState.customers
      filtered == IF listState.filterTier # "all" THEN SelectSeq(searched, byTier) ELSE searched
  IN sortList(filtered, listState.sortBy, listState.sortOrder)

totalPages == ceilDiv(Len(filteredAndSortedCustomers), ItemsPerPage)

paginatedCustomers ==
  LET start == (listState.currentPage - 1) * ItemsPerPage
  IN slice(filteredAndSortedCustomers, start, start + ItemsPerPage)

\* the parent renders the list again with the data of its latest fetch
customersPropChanged ==
  /\ listState.customers # customerList
  /\ listState' = [listState EXCEPT !.customers = customerList]

handleSearchChange(value) ==
  listState' = [listState EXCEPT !.searchTerm = value, !.currentPage = 1]

handleFilterChange(tier) ==
  listState' = [listState EXCEPT !.filterTier = tier, !.currentPage = 1]

handleSortChange(field) ==
  listState' = IF listState.sortBy = field
            THEN [listState EXCEPT !.sortOrder = IF listState.sortOrder = "asc" THEN "desc" ELSE "asc",
                              !.currentPage = 1]
          ELSE [listState EXCEPT !.sortBy = field, !.sortOrder = "asc", !.currentPage = 1]

handlePageChange(page) ==
  listState' = [listState EXCEPT !.currentPage = page]

\* the pagination controls are rendered when totalPages > 1
previousPage ==
  /\ totalPages > 1
  /\ listState.currentPage # 1
  /\ handlePageChange(listState.currentPage - 1)

nextPage ==
  /\ totalPages > 1
  /\ listState.currentPage # totalPages
  /\ handlePageChange(listState.currentPage + 1)

\* the number on the i-th page button, i counted from 0
pageNum(i) ==
  IF totalPages <= 7 THEN i + 1
  ELSE IF listState.currentPage <= 4 THEN i + 1
  ELSE IF listState.currentPage >= totalPages - 3 THEN totalPages - 6 + i
  ELSE listState.currentPage - 3 + i

pageButton(i) ==
  /\ totalPages > 1
  /\ i < Min(totalPages, 7)
  /\ handlePageChange(pageNum(i))

\* the Clear Filters button is rendered when a filter or a sort is set
clearFilters ==
  /\ \/ listState.searchTerm # ""
     \/ listState.filterTier # "all"
     \/ listState.sortBy # "name"
     \/ listState.sortOrder # "asc"
  /\ listState' = [listState EXCEPT !.searchTerm = "", !.filterTier = "all", !.sortBy = "name",
                          !.sortOrder = "asc", !.currentPage = 1]

ListSearchTerms == {"", "John ", "acme"}
ListTiers == {"all", "basic", "premium", "enterprise"}
ListSortFields == {"name", "company", "healthScore", "createdAt"}
ListDeleteIds == {"1", "7", "8"}

NextList ==
  \/ \E id \in ListDeleteIds : ops < MaxListOps /\ deleteCustomer(id) /\ UNCHANGED uiVars
  \/ customersPropChanged /\ UNCHANGED <<serviceVars, httpVars, toastVars, hookVars>>
  \/ \E value \in ListSearchTerms :
       handleSearchChange(value) /\ UNCHANGED <<serviceVars, httpVars, toastVars, hookVars>>
  \/ \E tier \in ListTiers :
       handleFilterChange(tier) /\ UNCHANGED <<serviceVars, httpVars, toastVars, hookVars>>
  \/ \E field \in ListSortFields :
       handleSortChange(field) /\ UNCHANGED <<serviceVars, httpVars, toastVars, hookVars>>
  \/ previousPage /\ UNCHANGED <<serviceVars, httpVars, toastVars, hookVars>>
  \/ listState.currentPage < MaxPage /\ nextPage
       /\ UNCHANGED <<serviceVars, httpVars, toastVars, hookVars>>
  \/ \E i \in 0..6 : pageButton(i) /\ UNCHANGED <<serviceVars, httpVars, toastVars, hookVars>>
  \/ clearFilters /\ UNCHANGED <<serviceVars, httpVars, toastVars, hookVars>>

SpecList == Init /\ [][NextList]_vars


(***************************************************************************)
(* The hook useCustomerOperations.  A call made through the hook runs to   *)
(* its await, where the repository call has already run; what follows the  *)
(* await runs later, in the order in which the calls were made.            *)
(***************************************************************************)
\* at most MaxHookOps calls are made through the hook
MaxHookOps == 3

\* setLoading(true); setError(null); const result = await customerService...
started(result) ==
  [loading |-> TRUE, error |-> null,
   calls |-> Append(hook.calls, [op |-> result.op, success |-> result.success,
                                 data |-> result.data, error |-> result.error])]

hookCreateCustomer(input) ==
  /\ createCustomer(input)
  /\ hook' = started(response')

hookUpdateCustomer(id, input) ==
  /\ updateCustomer(id, input)
  /\ hook' = started(response')

hookDeleteCustomer(id) ==
  /\ deleteCustomer(id)
  /\ hook' = started(response')

\* result.success && result.data; deleteCustomer tests result.success alone
succeeded(result) ==
  IF result.op = "deleteCustomer" THEN result.success
  ELSE result.success /\ result.data # <<>>

\* result.error || 'Failed to ... customer'
failureMessage(result) ==
  IF Truthy(result.error) THEN result.error
  ELSE IF result.op = "createCustomer" THEN "Failed to create customer"
  ELSE IF result.op = "updateCustomer" THEN "Failed to update customer"
  ELSE "Failed to delete customer"

\* the code after the await of the oldest call that awaits its result; both branches end with
\* setLoading(false)
resumed ==
  /\ hook.calls # <<>>
  /\ Settle
  /\ LET result == Head(hook.calls)
     IN hook' = [loading |-> FALSE,
                 error |-> IF succeeded(result) THEN hook.error ELSE failureMessage(result),
                 calls |-> Tail(hook.calls)]

\* clearError: () => setError(null)
clearError ==
  /\ hook.error # null
  /\ hook' = [hook EXCEPT !.error = null]

HookCreateInputs ==
  {CreateInput("Bo Li", "Bolt", "bo@bolt.io", "premium", <<"bolt.io">>),
   CreateInput("", "Bolt", undefined, undefined, undefinedList)}

HookUpdateCalls ==
  {<<"2", [NoPatch EXCEPT !.name = "Sarah Johnson-Smith"]>>,
   <<"9", [NoPatch EXCEPT !.company = "Bolt"]>>}

HookDeleteIds == {"1", "9"}

NextHook ==
  \/ \E input \in HookCreateInputs :
       ops < MaxHookOps /\ hookCreateCustomer(input)
         /\ UNCHANGED <<httpVars, toastVars, listVars>>
  \/ \E call \in HookUpdateCalls :
       ops < MaxHookOps /\ hookUpdateCustomer(call[1], call[2])
         /\ UNCHANGED <<httpVars, toastVars, listVars>>
  \/ \E id \in HookDeleteIds :
       ops < MaxHookOps /\ hookDeleteCustomer(id)
         /\ UNCHANGED <<httpVars, toastVars, listVars>>
  \/ resumed /\ UNCHANGED <<httpVars, toastVars, listVars>>
  \/ clearError /\ UNCHANGED <<serviceVars, httpVars, toastVars, listVars>>

SpecHook == Init /\ [][NextHook]_vars


TypeOK ==
  /\ nextId \in Nat
  /\ ops \in Nat
  /\ pending \in 0..MaxInflight


(***************************************************************************)
(* Properties.                                                             *)
(***************************************************************************)
Mutators == {"createCustomer", "updateCustomer", "deleteCustomer"}

\* the step is a call of createCustomer, updateCustomer or deleteCustomer
MutatorCall == ops' # ops

\* C3: a createCustomer, updateCustomer or deleteCustomer call that returns
\* success = false leaves the collection (contents and order) and the id
\* counter as they were before the call.
C3_FailureLeavesStateUnchanged ==
  [][(MutatorCall /\ ~response'.success)
       => (customers' = customers /\ nextId' = nextId)]_vars

\* a failed call of each kind has been made on a collection that already changed
C3_Witness ==
  /\ response.op = "updateCustomer"
  /\ ~response.success
  /\ response.code = "INTERNAL_ERROR"
  /\ customers # mockCustomers
  /\ nextId > NextIdInit

\* C4: the id a successful createCustomer assigns is the id of no customer
\* that has ever been in the collection (seed and deleted customers included),
\* and the id counter never decreases.
C4_IdNeverReused ==
  [][/\ nextId' >= nextId
     /\ (MutatorCall /\ response'.op = "createCustomer" /\ response'.success)
          => response'.data[1].id \notin everIds]_vars

\* a customer is created after a created customer and a seed customer were deleted
C4_Witness ==
  /\ response.op = "createCustomer"
  /\ response.success
  /\ deleted # {}
  /\ Len(customers) < nextId - 1

\* C6: every customer in the collection has a healthScore between 0 and 100.
C6_HealthScoreInRange ==
  \A i \in 1..Len(customers) :
    customers[i].healthScore >= Points(0) /\ customers[i].healthScore <= Points(100)

\* an update recomputed a score whose unclamped value exceeds 100
C6_Witness ==
  /\ response.op = "updateCustomer"
  /\ response.success
  /\ response.input.subscriptionTier = "enterprise"
  /\ response.data[1].healthScore = Points(100)
  /\ calculateHealthScoreUnclamped(response.data[1], response.data[1].updatedAt) > Points(100)

C8_WitnessGet ==
  /\ response.op = "getCustomerById"
  /\ response.id \in deleted
  /\ response.code = "NOT_FOUND"


\* C1: no two customers of the collection have the same non-empty email,
\* emails being compared without regard to case.
C1_EmailsUnique ==
  \A i, j \in 1..Len(customers) :
    (i # j /\ Truthy(customers[i].email) /\ Truthy(customers[j].email))
      => toLowerCase(customers[i].email) # toLowerCase(customers[j].email)

\* C2: createCustomer with an otherwise valid input whose email equals, without
\* regard to case, the email of a customer of the collection fails with
\* DUPLICATE_ERROR and leaves the collection and the id counter unchanged.
C2_DuplicateCreateFails ==
  [][(/\ MutatorCall
      /\ response'.op = "createCustomer"
      /\ validateCustomerInput(response'.input) = ""
      /\ Truthy(response'.input.email)
      /\ \E i \in 1..Len(customers) :
           /\ Truthy(customers[i].email)
           /\ toLowerCase(customers[i].email) = toLowerCase(response'.input.email))
       => (/\ ~response'.success
           /\ response'.code = "DUPLICATE_ERROR"
           /\ customers' = customers
           /\ nextId' = nextId)]_vars

\* C5: calls issued concurrently behave as in some serial order; in particular
\* two createCustomer calls that are outstanding together never both succeed
\* with the same email and never receive the same id.
C5_ConcurrentCreatesExclusive ==
  [][(/\ MutatorCall
      /\ pending >= 1
      /\ response.op = "createCustomer" /\ response.success
      /\ response'.op = "createCustomer" /\ response'.success)
       => (/\ response'.data[1].id # response.data[1].id
           /\ ~(/\ Truthy(response.input.email)
                /\ response'.input.email = response.input.email))]_vars


C7_TierBonus(T) ==
  CASE T = "enterprise" -> 30
    [] T = "premium" -> 15
    [] T = "basic" -> 5
    [] OTHER -> 0

C7_Expected(T, D, E) ==
  LET raw == 50 + C7_TierBonus(T)
                + (IF D = undefinedList THEN 0 ELSE IF 5 * Len(D) < 20 THEN 5 * Len(D) ELSE 20)
                + (IF E # undefined /\ E # "" THEN 10 ELSE 0)
  IN IF raw < 0 THEN 0 ELSE IF raw > 100 THEN 100 ELSE raw

C9_Limit(options) == IF options.limit = undefinedNumber THEN 10 ELSE options.limit

RECURSIVE C9_Pages(_, _, _)
C9_Pages(options, p, last) ==
  IF p > last THEN <<>>
  ELSE getCustomersResult([options EXCEPT !.page = p]).data
         \o C9_Pages(options, p + 1, last)

\* C9: the slice getCustomers returns has at most limit items, and the slices
\* of pages 1..totalPages, in order, make up the filtered, sorted sequence,
\* every customer of it once.
C9_PagesPartition ==
  response.op = "getCustomers" =>
    LET all == C9_Pages(response.input, 1, response.pagination.totalPages) IN
    /\ Len(response.data) <= C9_Limit(response.input)
    /\ all = sortCustomers(filterCustomers(response.input), response.input)
    /\ \A i, j \in 1..Len(all) : i # j => all[i].id # all[j].id

\* the last, shorter page of a sorted list of three pages was returned
C9_Witness ==
  /\ response.op = "getCustomers"
  /\ response.input.sortBy = "name"
  /\ response.pagination.totalPages = 3
  /\ response.pagination.page = 3
  /\ Len(response.data) \in 1..2
  /\ customers # mockCustomers

C10_Matches(c, o) ==
  /\ o.subscriptionTier # undefined => c.subscriptionTier = o.subscriptionTier
  /\ o.healthScoreMin # undefinedNumber => o.healthScoreMin <= c.healthScore
  /\ o.healthScoreMax # undefinedNumber => c.healthScore <= o.healthScoreMax
  /\ o.company # undefined => includes(toLowerCase(c.company), toLowerCase(o.company))
  /\ o.searchTerm # undefined =>
       \/ includes(toLowerCase(c.name), toLowerCase(o.searchTerm))
       \/ includes(toLowerCase(c.company), toLowerCase(o.searchTerm))
       \/ (c.email # undefined /\ includes(toLowerCase(c.email), toLowerCase(o.searchTerm)))

C10_WitnessEmail ==
  /\ response.op = "getCustomers"
  /\ response.input.searchTerm = "sarah@"
  /\ response.pagination.total >= 1


\* C11: a successful updateCustomer(id, patch) leaves the id, createdAt and every
\* field absent from the patch as they were (healthScore may change when the
\* patch holds subscriptionTier or domains), keeps the customer at its position
\* and leaves every other customer unchanged.
C11_UpdateFrame ==
  [][(response'.op = "updateCustomer" /\ MutatorCall /\ response'.success)
       => LET input == response'.input
              i == IndexOf(response'.id)
          IN /\ i # 0
             /\ Len(customers') = Len(customers)
             /\ \A j \in 1..Len(customers) : j # i => customers'[j] = customers[j]
             /\ customers'[i].id = customers[i].id
             /\ customers'[i].createdAt = customers[i].createdAt
             /\ input.name = undefined => customers'[i].name = customers[i].name
             /\ input.company = undefined => customers'[i].company = customers[i].company
             /\ input.email = undefined => customers'[i].email = customers[i].email
             /\ input.subscriptionTier = undefined
                  => customers'[i].subscriptionTier = customers[i].subscriptionTier
             /\ input.domains = undefinedList => customers'[i].domains = customers[i].domains
             /\ (input.healthScore = undefinedNumber /\ input.subscriptionTier = undefined
                   /\ input.domains = undefinedList)
                  => customers'[i].healthScore = customers[i].healthScore]_vars

\* the name alone of customer 2 was patched
C11_Witness ==
  /\ response.op = "updateCustomer"
  /\ response.success
  /\ response.id = "2"
  /\ response.input = [NoPatch EXCEPT !.name = " John S "]
  /\ customers[2].name = "John S"
  /\ customers[2].company = "TechStart Inc"
  /\ customers[2].updatedAt = now


\* the score of the algorithm for a record c at time t (in days): 50, the tier
\* bonus, 5 per domain up to 20, 10 for an email, a tenth of a point per day of
\* account age up to 15, rounded and clamped to [0,100]
C12_Recomputed(c, t) ==
  LET days == t - c.createdAt
      tenths == 10 * (50 + C7_TierBonus(c.subscriptionTier)
                         + (IF 5 * Len(c.domains) < 20 THEN 5 * Len(c.domains) ELSE 20)
                         + (IF c.email # undefined /\ c.email # "" THEN 10 ELSE 0))
                + (IF days < 150 THEN days ELSE 150)
      rounded == (tenths + 5) \div 10
  IN IF rounded < 0 THEN 0 ELSE IF rounded > 100 THEN 100 ELSE rounded

\* C12: after a successful updateCustomer whose patch holds subscriptionTier or
\* domains (an empty domains list included), the stored healthScore is the score
\* recomputed from the merged record at the time of the update, whatever
\* healthScore the patch holds.
C12_RecomputeOverridesPatch ==
  (/\ response.op = "updateCustomer"
   /\ response.success
   /\ (response.input.subscriptionTier # undefined \/ response.input.domains # undefinedList))
    => LET c == customers[IndexOf(response.id)]
       IN /\ c = response.data[1]
          /\ response.input.subscriptionTier # undefined
               => c.subscriptionTier = response.input.subscriptionTier
          /\ response.input.domains # undefinedList => c.domains = response.input.domains
          /\ c.healthScore = ScoreUnit * C12_Recomputed(c, c.updatedAt)

\* the patch held an empty domains list and a healthScore of 100, and the stored
\* score is the recomputed one
C12_Witness ==
  /\ response.op = "updateCustomer"
  /\ response.success
  /\ response.input.domains = <<>>
  /\ response.input.healthScore = Points(100)
  /\ customers[IndexOf(response.id)].healthScore < Points(100)


C13_SeedIds == {mockCustomers[i].id : i \in 1..Len(mockCustomers)}

\* C13: a successful createCustomer appends a customer with createdAt =
\* updatedAt = the time of the call; a successful updateCustomer sets updatedAt
\* to the time of the call, not earlier than the previous updatedAt, and leaves
\* createdAt unchanged; every customer created through the repository has
\* updatedAt >= createdAt.
C13_Timestamps ==
  [][/\ (response'.op = "createCustomer" /\ MutatorCall /\ response'.success)
          => /\ Len(customers') = Len(customers) + 1
             /\ customers'[Len(customers')].createdAt = now
             /\ customers'[Len(customers')].updatedAt = now
     /\ (response'.op = "updateCustomer" /\ MutatorCall /\ response'.success)
          => LET i == IndexOf(response'.id)
             IN /\ customers'[i].updatedAt = now
                /\ customers'[i].updatedAt >= customers[i].updatedAt
                /\ customers'[i].createdAt = customers[i].createdAt
     /\ \A i \in 1..Len(customers') :
          customers'[i].id \notin C13_SeedIds
            => customers'[i].updatedAt >= customers'[i].createdAt]_vars

\* a customer created through the repository was updated at a later time
C13_Witness ==
  /\ response.op = "updateCustomer"
  /\ response.success
  /\ response.id = "9"
  /\ customers[IndexOf("9")].createdAt = NowInit
  /\ customers[IndexOf("9")].updatedAt = NowInit + 46


\* C19: an updateCustomer(id, patch) of an existing customer with a valid patch
\* whose non-empty email is the email of a different customer fails with
\* DUPLICATE_ERROR and changes nothing; when no different customer has that
\* email (it may be the customer's own) the call does not fail with
\* DUPLICATE_ERROR.
C19_UpdateDuplicateEmail ==
  [][(/\ response'.op = "updateCustomer"
      /\ MutatorCall
      /\ response'.input.email # undefined
      /\ response'.input.email # ""
      /\ IndexOf(response'.id) # 0
      /\ validateCustomerUpdateInput(response'.input) = "")
       => LET taken == \E i \in 1..Len(customers) :
                         /\ customers[i].id # response'.id
                         /\ customers[i].email = response'.input.email
          IN /\ taken => /\ ~response'.success
                         /\ response'.code = "DUPLICATE_ERROR"
                         /\ customers' = customers
                         /\ nextId' = nextId
             /\ ~taken => response'.code # "DUPLICATE_ERROR"]_vars

\* customer 1 was refused the email of customer 2
C19_Witness ==
  /\ response.op = "updateCustomer"
  /\ response.id = "1"
  /\ response.input.email = "sarah@techstart.io"
  /\ response.code = "DUPLICATE_ERROR"
  /\ customers[1].email = "john.smith@acmecorp.com"

\* customer 2 was patched with its own email
C19_WitnessOwn ==
  /\ response.op = "updateCustomer"
  /\ response.id = "2"
  /\ response.input.email = "sarah@techstart.io"
  /\ response.success


\* C20: the domains list of every customer in the collection contains no
\* duplicate entries.
C20_DomainsNoDuplicates ==
  \A i \in 1..Len(customers) :
    \A j, k \in 1..Len(customers[i].domains) :
      j # k => customers[i].domains[j] # customers[i].domains[k]


\* C14: getCustomerStats returns total equal to the number of customers, and
\* the three byTier counts and the three healthDistribution counts each add up
\* to total.
C14_StatsAddUp ==
  response.op = "getCustomerStats"
    => LET stats == response.data[1]
       IN /\ stats.total = Len(customers)
          /\ stats.byTier.basic + stats.byTier.premium + stats.byTier.enterprise = stats.total
          /\ stats.healthDistribution.healthy + stats.healthDistribution.warning
               + stats.healthDistribution.critical = stats.total


RECURSIVE C15_Sum(_)
C15_Sum(i) == IF i = 0 THEN 0 ELSE C15_Sum(i - 1) + customers[i].healthScore

\* C15: getCustomerStats returns an averageHealthScore of 0 when the collection
\* is empty, and otherwise the whole number of points A nearest to the mean of
\* the health scores (A - 1/2 <= mean < A + 1/2).
C15_AverageHealthScore ==
  response.op = "getCustomerStats"
    => LET avg == response.data[1].averageHealthScore
           n == Len(customers)
       IN IF n = 0 THEN avg = Points(0)
          ELSE /\ avg % ScoreUnit = 0
               /\ (2 * avg - ScoreUnit) * n <= 2 * C15_Sum(n)
               /\ 2 * C15_Sum(n) < (2 * avg + ScoreUnit) * n


\* the string text contains the string part, letters compared without case
C16_Contains(text, part) ==
  \E k \in 1..(Len(text) - Len(part) + 1) :
    toLowerCase(SubSeq(text, k, k + Len(part) - 1)) = toLowerCase(part)

C16_Matches(c, term) ==
  \/ C16_Contains(c.name, term)
  \/ C16_Contains(c.company, term)
  \/ (c.email # undefined /\ C16_Contains(c.email, term))

C16_Blank(term) == term = undefined \/ \A k \in 1..Len(term) : SubSeq(term, k, k) = " "

\* C16 as stated: searchCustomers(term) succeeds with an empty list when term is
\* empty or only whitespace, and otherwise with exactly the customers whose
\* name, company or email contains term case-insensitively, in collection order.
C16_SearchContainsTerm ==
  response.op = "searchCustomers"
    => LET term == response.input
           matches(c) == C16_Matches(c, term)
       IN /\ response.success
          /\ response.data = IF C16_Blank(term) THEN <<>> ELSE SelectSeq(customers, matches)

\* C16 as amended: searchCustomers(term) succeeds with an empty list when term
\* is empty or only whitespace, and otherwise with exactly the customers whose
\* name, company or email contains term without its leading and trailing
\* whitespace, case-insensitively, in collection order.
C16_SearchContainsTrimmedTerm ==
  response.op = "searchCustomers"
    => LET term == response.input
           matches(c) == C16_Matches(c, trim(term))
       IN /\ response.success
          /\ response.data = IF C16_Blank(term) THEN <<>> ELSE SelectSeq(customers, matches)

\* a term with blanks around it found the three customers whose name holds john
C16_Witness ==
  /\ response.op = "searchCustomers"
  /\ response.input = " john "
  /\ Len(response.data) = 3
  /\ response.data[2].name = "Sarah Johnson"

\* a term of blanks found nothing
C16_WitnessBlank ==
  /\ response.op = "searchCustomers"
  /\ response.input = "  "
  /\ response.success
  /\ response.data = <<>>


\* C17: getCustomersByHealthScore(min, max) fails with VALIDATION_ERROR when
\* min > max or min or max lies outside [0,100], and otherwise succeeds with
\* exactly the customers whose healthScore is between min and max inclusive,
\* in collection order (an absent min is 0, an absent max is 100).
C17_HealthScoreRange ==
  response.op = "getCustomersByHealthScore"
    => LET min == IF response.input[1] = undefinedNumber THEN 0 ELSE response.input[1]
           max == IF response.input[2] = undefinedNumber
                    THEN 100 * ScoreUnit ELSE response.input[2]
           outside(x) == x < 0 \/ x > 100 * ScoreUnit
           between(c) == min <= c.healthScore /\ c.healthScore <= max
       IN IF min > max \/ outside(min) \/ outside(max)
            THEN ~response.success /\ response.code = "VALIDATION_ERROR"
            ELSE response.success /\ response.data = SelectSeq(customers, between)

\* a range with min above max, both within [0,100], was refused
C17_Witness ==
  /\ response.op = "getCustomersByHealthScore"
  /\ response.input = <<Points(50), Points(40)>>
  /\ response.code = "VALIDATION_ERROR"

\* a range returned the customers within it and left out the others
C17_WitnessRange ==
  /\ response.op = "getCustomersByHealthScore"
  /\ response.input = <<Points(45), Points(85)>>
  /\ response.success
  /\ Len(response.data) >= 3
  /\ Len(response.data) < Len(customers)


C18_Codes == {"VALIDATION_ERROR", "NOT_FOUND", "DUPLICATE_ERROR", "INTERNAL_ERROR"}

C18_ByIdOps == {"getCustomerById", "updateCustomer", "deleteCustomer"}

\* C18: every call of a public operation ends with a result; a result that is
\* not a success carries one of the four codes and a message; getCustomerById,
\* updateCustomer and deleteCustomer answer VALIDATION_ERROR to an empty or
\* whitespace id and NOT_FOUND to any other id that is not in the collection.
C18_AlwaysAResult ==
  [][(response' # response \/ MutatorCall)
       => /\ response'.op # "none"
          /\ response'.success \in BOOLEAN
          /\ ~response'.success
               => /\ response'.code \in C18_Codes
                  /\ response'.error # undefined
                  /\ response'.error # ""
          /\ response'.op \in C18_ByIdOps
               => LET id == response'.id
                      blank == id = undefined \/ \A k \in 1..Len(id) : SubSeq(id, k, k) = " "
                      known == \E i \in 1..Len(customers) : customers[i].id = id
                  IN /\ blank => ~response'.success /\ response'.code = "VALIDATION_ERROR"
                     /\ (~blank /\ ~known)
                          => ~response'.success /\ response'.code = "NOT_FOUND"]_vars

\* deleteCustomer was called with an id of one blank
C18_Witness ==
  /\ response.op = "deleteCustomer"
  /\ response.id = " "
  /\ ~response.success
  /\ response.code = "VALIDATION_ERROR"
  /\ response.error = "Customer ID is required"

\* a TypeError raised inside createCustomer was turned into a result
C18_WitnessInternal ==
  /\ response.op = "createCustomer"
  /\ ~response.success
  /\ response.code = "INTERNAL_ERROR"

\* updateCustomer was called with an id that is not in the collection
C18_WitnessNotFound ==
  /\ response.op = "updateCustomer"
  /\ response.id = "9"
  /\ response.code = "NOT_FOUND"
  /\ response.error = "Customer with ID '9' not found"


\* C21: a createCustomer or updateCustomer whose domains list has more than 10
\* entries fails with VALIDATION_ERROR and leaves the collection unchanged, and
\* no customer of the collection has more than 10 domains.
C21_AtMostTenDomains ==
  [][/\ (/\ response'.op \in {"createCustomer", "updateCustomer"}
          /\ MutatorCall
          /\ response'.input.domains # undefinedList
          /\ response'.input.domains # notAnArray
          /\ Len(response'.input.domains) > 10)
          => /\ ~response'.success
             /\ response'.code = "VALIDATION_ERROR"
             /\ customers' = customers
     /\ \A i \in 1..Len(customers') : Len(customers'[i].domains) <= 10]_vars

C23_WitnessOutOfRange ==
  /\ response.op = "updateCustomer"
  /\ ~response.success
  /\ response.code = "VALIDATION_ERROR"
  /\ response.id = "2"
  /\ response.input = [NoPatch EXCEPT !.healthScore = Points(101)]
  /\ customers = mockCustomers

\* C24: in the state resetData leaves, whatever create, update and delete
\* operations came before, the collection is the list of the 8 seed customers
\* with their original field values in their original order (the collection of
\* the initial state) and the id counter is 9.
C24_ResetRestoresInit ==
  response.op = "resetData"
    => /\ customers = mockCustomers
       /\ Len(customers) = 8
       /\ \A i \in 1..8 : customers[i].id = toString(i) /\ customers[i].updatedAt = 0
       /\ nextId = 9

\* resetData ran after a customer "9" had been created and a seed customer deleted
C24_Witness ==
  /\ response.op = "resetData"
  /\ "9" \in everIds
  /\ deleted # {}
  /\ customers = mockCustomers
  /\ nextId = NextIdInit

\* the initial score of a record with tier bonus b: 50, the bonus, 5 per domain
\* up to 20 and 10 for an email, capped at 100
C27_Score(b, c) ==
  LET raw == 50 + b + (IF 5 * Len(c.domains) < 20 THEN 5 * Len(c.domains) ELSE 20)
                + (IF c.email # undefined /\ c.email # "" THEN 10 ELSE 0)
  IN IF raw > 100 THEN 100 ELSE raw

C27_Bonus(tier) ==
  IF tier = "enterprise" THEN 30 ELSE IF tier = "premium" THEN 15 ELSE 5

C22_Status(code) ==
  CASE code = "VALIDATION_ERROR" -> 400
    [] code = "NOT_FOUND" -> 404
    [] code = "DUPLICATE_ERROR" -> 409
    [] code = "INTERNAL_ERROR" -> 500

\* C22: a response of the API to a request whose repository call failed has
\* the status of the code of the failure (VALIDATION_ERROR 400, NOT_FOUND 404,
\* DUPLICATE_ERROR 409, INTERNAL_ERROR 500), and so does the status each handler
\* computes for every code the operation it calls can fail with; a successful
\* POST /api/customers has status 201, every other success of a customer
\* endpoint 200 or 304; POST, PUT and DELETE of the search and stats endpoints
\* have status 405.
C22_StatusMatchesCode ==
  /\ (http.service.op # "none" /\ ~http.service.success)
       => /\ ~http.success
          /\ http.status = C22_Status(http.service.code)
          /\ http.endpoint # "/api/customers/stats" => http.code = http.service.code
  /\ \A code \in {"VALIDATION_ERROR", "DUPLICATE_ERROR", "INTERNAL_ERROR"} :
       postStatusCode(code) = C22_Status(code)
  /\ \A code \in {"VALIDATION_ERROR", "NOT_FOUND", "INTERNAL_ERROR"} :
       /\ getStatusCode(code) = C22_Status(code)
       /\ deleteStatusCode(code) = C22_Status(code)
  /\ \A code \in {"VALIDATION_ERROR", "NOT_FOUND", "DUPLICATE_ERROR", "INTERNAL_ERROR"} :
       putStatusCode(code) = C22_Status(code)
  /\ (http.method = "POST" /\ http.endpoint = "/api/customers" /\ http.success)
       => /\ http.status = 201
          /\ http.service.op = "createCustomer"
          /\ http.service.success
  /\ (http.success /\ ~(http.method = "POST" /\ http.endpoint = "/api/customers")
       /\ http.method # "")
       => http.status \in {200, 304}
  /\ (http.method \in {"POST", "PUT", "DELETE"} /\ http.endpoint \in ReadOnlyEndpoints)
       => /\ http.status = 405
          /\ http.code = "METHOD_NOT_ALLOWED"
          /\ http.service.op = "none"

\* a PUT with the email of another customer was answered 409
C22_Witness ==
  /\ http.method = "PUT"
  /\ http.status = 409
  /\ http.service.op = "updateCustomer"
  /\ http.service.code = "DUPLICATE_ERROR"
  /\ customers = mockCustomers

\* a POST with the email of a customer was answered 409, a GET and a DELETE of
\* an unknown id 404
C22_WitnessConflict ==
  /\ http.method = "POST"
  /\ http.status = 409
  /\ http.service.code = "DUPLICATE_ERROR"

C22_WitnessNotFound ==
  /\ http.method \in {"GET", "DELETE"}
  /\ http.status = 404
  /\ http.service.code = "NOT_FOUND"

\* a POST created a customer and was answered 201
C22_WitnessCreated ==
  /\ http.method = "POST"
  /\ http.status = 201
  /\ Len(customers) = 9
  /\ customers[9].email = "ann@new.io"

\* a DELETE of the stats endpoint was answered 405
C22_WitnessMethod ==
  /\ http.method = "DELETE"
  /\ http.endpoint = "/api/customers/stats"
  /\ http.status = 405

\* C25: after a PUT /api/customers/{id} whose body holds the email null or ''
\* was answered 200, the stored customer of that id has no email.
C25_PutClearsEmail ==
  (/\ http.method = "PUT"
   /\ http.status = 200
   /\ http.body.email \in {null, ""})
    => LET c == customers[IndexOf(sanitizeId(http.id))]
       IN c.email = undefined \/ c.email = ""

\* C28: whenever GET /api/customers/stats answers 304 to an If-None-Match
\* value, the statistics of the collection (total, byTier, averageHealthScore,
\* healthDistribution) are those of every 200 response that issued that ETag.
C28_NotModifiedMeansEqualStats ==
  http.status = 304
    => \A i \in issued : i.etag = http.ifNoneMatch => i.stats = customerStats

\* C26 (first part): a toast in the list whose duration is greater than 0, the default of
\* 5000 ms included, leaves the list through the timers alone
C26_AutoDismissed ==
  \A n \in 1..MaxToasts :
    (n <= Len(toastItems) /\ InList(n) /\ toastItems[n].duration > 0) ~> ~InList(n)

\* C26: showToast appends the toast with the duration it was given, 5000 ms when none was
C26_ShowStep ==
  (toastEvent'.op = "showToast" /\ toastEvent'.n = Len(toastItems) + 1)
    => /\ Len(toasts') = Len(toasts) + 1
       /\ SubSeq(toasts', 1, Len(toasts)) = toasts
       /\ toasts'[Len(toasts')].id = toastEvent'.id
       /\ toasts'[Len(toasts')].duration =
            IF toastEvent'.toastData.duration = absentNumber THEN 5000
            ELSE toastEvent'.toastData.duration

\* C26 (second part): a toast of duration 0 leaves the list only in a call of hideAllToasts or
\* in a call of hideToast with its id, made directly or by onDismiss after a dismissal
C26_ZeroStaysStep ==
  \A n \in 1..Len(toastItems) :
    (InList(n) /\ toastItems[n].duration = 0 /\ ~InList(n)')
      => \/ toastEvent'.op = "hideAllToasts"
         \/ /\ toastEvent'.op \in {"hideToast", "dismissTimeout"}
            /\ toastEvent'.id = toastItems[n].id

\* C26 (second part): no auto-dismiss timer is ever set for a toast of duration 0
C26_NoTimerForZero ==
  \A n \in 1..Len(toastItems) : toastItems[n].duration = 0 => toastItems[n].timer = "none"

\* C26 (third part): hideToast(id), called directly or by onDismiss, removes the toasts whose
\* id is id and keeps every other toast, in the same order
C26_HideStep ==
  toastEvent'.op \in {"hideToast", "dismissTimeout"}
    => toasts' = SelectSeq(toasts, LAMBDA toast : toast.id # toastEvent'.id)

\* C26: toasts with a positive duration are eventually removed without any user action, toasts
\* of duration 0 stay until they are dismissed or hidden, and hideToast(id) removes only the
\* toast with that id
C26_ToastLifecycle ==
  /\ C26_AutoDismissed
  /\ []C26_NoTimerForZero
  /\ [][C26_ShowStep /\ C26_ZeroStaysStep /\ C26_HideStep]_vars

\* C26 witness: the timers alone have removed a toast shown without a duration while a toast
\* of duration 0 shown before it is still rendered in the list
C26_Witness ==
  /\ toastEvent.op = "dismissTimeout"
  /\ clicks = 0
  /\ listState = NoListState
  /\ hook = NoHookState
  /\ \E n, m \in 1..Len(toastItems) :
       /\ toastEvent.n = n
       /\ toastItems[n].duration = DefaultDuration
       /\ toastItems[n].timer = "fired"
       /\ ~InList(n)
       /\ m < n
       /\ toastItems[m].duration = 0
       /\ toastItems[m].mounted
       /\ InList(m)

\* C26 witness: hideToast(id) has removed one toast and kept the other
C26_WitnessHide ==
  /\ toastEvent.op = "hideToast"
  /\ Len(toasts) = 1
  /\ Len(toastItems) = 2
  /\ toasts[1].id # toastEvent.id

====
